---- MODULE Spec2Model ----
(***************************************************************************)
(* Model of pace26io: the PACE26 container-format reader                   *)
(* (src/pace/reader.rs), the Newick lexer, parser and writer (src/newick)  *)
(* and the tree builders (src/binary_tree).                                *)
(*                                                                         *)
(* Text is modelled as a sequence of one-character strings, so that        *)
(* trimming, prefix tests, splitting, number parsing and number formatting *)
(* are computed and not assumed.                                           *)
(***************************************************************************)
EXTENDS Integers, Sequences, FiniteSets, TLC

VARIABLES
    \* ---- InstanceReader::read ----
    stream,        \* the lines of the input, as BufRead::lines yields them
    visit_td,      \* V::VISIT_PARAM_TREE_DECOMPOSITION of the visitor
    lineno,        \* 0-based index of the line the loop is at
    header_line,   \* Option<usize>: NoneVal or the line of the first header
    calls,         \* the handler calls made so far, in order, with what each returned
    result,        \* Running, or how read ended
    \* ---- Newick parse / write ----
    text,          \* the Newick text handed to parse_newick_from_str
    root_id,       \* the NodeIdx handed to it
    builder,       \* "plain" (BinTreeBuilder) or "indexed" (IndexedBinTreeBuilder)
    overflow_checks, \* build profile: TRUE panics on u32 overflow, FALSE wraps
    phase,         \* position of the round trip
    parsed,        \* result of the first parse
    written,       \* to_newick_string of the parsed tree
    reparsed,      \* result of parsing `written` again
    rewritten,     \* to_newick_string of the reparsed tree
    \* ---- Instance::try_read ----
    instance,      \* the Instance being filled
    visitor,       \* num_leaves and error of the Visitor
    parse_calls,   \* the calls of parse_newick_from_str made by visit_tree, in order
    outcome,       \* Pending, or what try_read returned
    \* ---- Lexer as an iterator ----
    lexer,         \* the Lexer: its input, its position and its whitespace policy
    items,         \* what the calls of next returned so far, in order
    \* ---- DFSImpl ----
    stack,         \* DFSImpl::stack, the cursors still to visit, the top last
    yielded        \* what the calls of DFSImpl::next returned so far, in order

readerVars == <<stream, visit_td, lineno, header_line, calls, result>>
newickVars == <<text, root_id, builder, overflow_checks, phase, parsed, written, reparsed, rewritten>>
instanceVars == <<instance, visitor, parse_calls, outcome>>
lexerVars == <<lexer, items>>
dfsVars == <<stack, yielded>>
vars == <<stream, visit_td, lineno, header_line, calls, result, text, root_id, builder, overflow_checks, phase, parsed, written, reparsed, rewritten, instance, visitor, parse_calls, outcome, lexer, items, stack, yielded>>

----------------------------------------------------------------------------
\* Bounds of the model

\* longest input stream, in lines
MaxLines == 3

\* most leaves of a generated Newick text
MaxLeaves == 4

\* the longest text of the exhaustive part of the parser's inputs
MaxTextLen == 4

\* the most leaves of the grammar texts the parser's inputs are edited from
MaxParseLeaves == 3

----------------------------------------------------------------------------
\* Characters and string primitives (std::str)

\* Option::None of an Option<usize> (line numbers and offsets are >= 0)
NoneVal == -1

\* U+00A0 NO-BREAK SPACE, a whitespace character of two bytes in UTF-8; the
\* characters outside ASCII are written by their code point
Nbsp == "U+00A0"

Whitespace == {" ", "\t", Nbsp}

Digits == {"0", "1", "2", "3", "4", "5", "6", "7", "8", "9"}

DigitVal(c) ==
    CASE c = "0" -> 0 [] c = "1" -> 1 [] c = "2" -> 2 [] c = "3" -> 3
      [] c = "4" -> 4 [] c = "5" -> 5 [] c = "6" -> 6 [] c = "7" -> 7
      [] c = "8" -> 8 [] c = "9" -> 9

DigitChar(d) ==
    CASE d = 0 -> "0" [] d = 1 -> "1" [] d = 2 -> "2" [] d = 3 -> "3"
      [] d = 4 -> "4" [] d = 5 -> "5" [] d = 6 -> "6" [] d = 7 -> "7"
      [] d = 8 -> "8" [] d = 9 -> "9"

\* str::trim: the slice without leading and trailing whitespace
trim(s) ==
    IF \A i \in 1..Len(s) : s[i] \in Whitespace
    THEN <<>>
    ELSE LET first == CHOOSE i \in 1..Len(s) :
                          s[i] \notin Whitespace /\ \A j \in 1..(i-1) : s[j] \in Whitespace
             last  == CHOOSE i \in 1..Len(s) :
                          s[i] \notin Whitespace /\ \A j \in (i+1)..Len(s) : s[j] \in Whitespace
         IN SubSeq(s, first, last)

starts_with(s, p) == Len(s) >= Len(p) /\ SubSeq(s, 1, Len(p)) = p

ends_with(s, p) == Len(s) >= Len(p) /\ SubSeq(s, Len(s) - Len(p) + 1, Len(s)) = p

\* str::find(char): 0-based offset of the first occurrence, or NoneVal
find(s, c) ==
    IF \E i \in 1..Len(s) : s[i] = c
    THEN (CHOOSE i \in 1..Len(s) : s[i] = c /\ \A j \in 1..(i-1) : s[j] # c) - 1
    ELSE NoneVal

\* str::split(char), collected: the pieces between the separators
RECURSIVE split(_, _)
split(s, c) ==
    LET at == find(s, c)
    IN IF at = NoneVal THEN <<s>>
       ELSE <<SubSeq(s, 1, at)>> \o split(SubSeq(s, at + 2, Len(s)), c)

----------------------------------------------------------------------------
\* Fixed-width unsigned integers.  A value is kept as its 16-bit limbs, least
\* significant first, so that u32 and usize keep their true width: a u32 is
\* two limbs, a usize four.

LimbBase == 2^16

\* u32: NodeIdx, Label, the number of a token
U32Limbs == 2

\* usize on the 64-bit targets
UsizeLimbs == 4

\* the value k (0 <= k < LimbBase) in n limbs
Small(k, n) == [i \in 1..n |-> IF i = 1 THEN k ELSE 0]

\* x * m + a for small m and a: the low limbs, and the carry out of the top limb
RECURSIVE MulAdd(_, _, _)
MulAdd(x, m, a) ==
    IF x = <<>> THEN [v |-> <<>>, carry |-> a]
    ELSE LET t    == x[1] * m + a
             rest == MulAdd(Tail(x), m, t \div LimbBase)
         IN [v |-> <<t % LimbBase>> \o rest.v, carry |-> rest.carry]

\* x - 1: the low limbs, and whether it borrowed out of the top limb
RECURSIVE Decrement(_)
Decrement(x) ==
    IF x = <<>> THEN [v |-> <<>>, borrow |-> TRUE]
    ELSE IF x[1] > 0 THEN [v |-> <<x[1] - 1>> \o Tail(x), borrow |-> FALSE]
    ELSE LET rest == Decrement(Tail(x))
         IN [v |-> <<LimbBase - 1>> \o rest.v, borrow |-> rest.borrow]

\* x divided by the small d: quotient and remainder
RECURSIVE DivSmall(_, _)
DivSmall(x, d) ==
    IF x = <<>> THEN [q |-> <<>>, r |-> 0]
    ELSE LET hi == DivSmall(Tail(x), d)
             t  == hi.r * LimbBase + x[1]
         IN [q |-> <<t \div d>> \o hi.q, r |-> t % d]

IsZero(x) == \A i \in 1..Len(x) : x[i] = 0

\* x < y for values of the same width
RECURSIVE Less(_, _)
Less(x, y) ==
    IF x = <<>> THEN FALSE
    ELSE LET n == Len(x)
         IN IF x[n] # y[n] THEN x[n] < y[n]
            ELSE Less(SubSeq(x, 1, n - 1), SubSeq(y, 1, n - 1))

\* `as u32` of a usize: the low 32 bits
as_u32(x) == SubSeq(x, 1, U32Limbs)

\* Display of an unsigned integer ("{}"): decimal, no leading zeros
RECURSIVE DecimalDigits(_)
DecimalDigits(x) ==
    IF IsZero(x) THEN <<>>
    ELSE LET d == DivSmall(x, 10) IN DecimalDigits(d.q) \o <<DigitChar(d.r)>>

to_decimal(x) == IF IsZero(x) THEN <<"0">> ELSE DecimalDigits(x)

\* checked accumulation of ASCII digits into n limbs: value, and whether it fits
RECURSIVE DecimalValue(_, _)
DecimalValue(ds, n) ==
    IF ds = <<>> THEN [v |-> Small(0, n), fits |-> TRUE]
    ELSE LET front == DecimalValue(SubSeq(ds, 1, Len(ds) - 1), n)
             here  == MulAdd(front.v, 10, DigitVal(ds[Len(ds)]))
         IN [v |-> here.v, fits |-> front.fits /\ here.carry = 0]

\* str::parse::<usize>: an optional '+', then one or more ASCII digits, in range
parse_usize(s) ==
    LET ds == IF Len(s) > 0 /\ s[1] = "+" THEN Tail(s) ELSE s
    IN IF Len(ds) > 0 /\ (\A i \in 1..Len(ds) : ds[i] \in Digits) /\ DecimalValue(ds, UsizeLimbs).fits
       THEN [ok |-> TRUE, v |-> DecimalValue(ds, UsizeLimbs).v]
       ELSE [ok |-> FALSE, v |-> Small(0, UsizeLimbs)]

NoF64 == [ok |-> FALSE, neg |-> FALSE, class |-> "finite", int |-> <<>>, frac |-> <<>>]

\* str::parse::<f64> on the forms [+-]digits[.digits], [+-]inf and [+-]nan
\* (no exponent form is in the alphabet of the inputs).  The value is kept as
\* sign, class and the decimal numeral, which is all the reader inspects.
parse_f64(s) ==
    LET signed == Len(s) > 0 /\ s[1] \in {"+", "-"}
        neg    == Len(s) > 0 /\ s[1] = "-"
        body   == IF signed THEN Tail(s) ELSE s
        dot    == find(body, ".")
        ip     == IF dot = NoneVal THEN body ELSE SubSeq(body, 1, dot)
        fp     == IF dot = NoneVal THEN <<>> ELSE SubSeq(body, dot + 2, Len(body))
        alldig(x) == \A i \in 1..Len(x) : x[i] \in Digits
    IN IF body = <<"n", "a", "n">> THEN [ok |-> TRUE, neg |-> neg, class |-> "nan", int |-> <<>>, frac |-> <<>>]
       ELSE IF body = <<"i", "n", "f">> THEN [ok |-> TRUE, neg |-> neg, class |-> "inf", int |-> <<>>, frac |-> <<>>]
       ELSE IF alldig(ip) /\ alldig(fp) /\ Len(ip) + Len(fp) > 0
       THEN [ok |-> TRUE, neg |-> neg, class |-> "finite", int |-> ip, frac |-> fp]
       ELSE NoF64

\* f64 comparison `x < 0.0`: false for NaN and for negative zero
f64_is_negative(x) ==
    /\ x.neg
    /\ x.class # "nan"
    /\ \/ x.class = "inf"
       \/ \E i \in 1..Len(x.int) : x.int[i] # "0"
       \/ \E i \in 1..Len(x.frac) : x.frac[i] # "0"

----------------------------------------------------------------------------
\* Line parsers of the reader

NoTd == [treewidth |-> 0, bags |-> <<>>, edges |-> <<>>, present |-> FALSE]

\* serde_json::from_str::<TreeDecomposition>: a JSON array of exactly three
\* elements [treewidth, bags, edges].  The payloads `[w,[],[]]` with a
\* one-digit treewidth w are decoded; every other text is rejected.
TdJsonEmpty == <<"[", "1", ",", "[", "]", ",", "[", "]", "]">>

decode_tree_decomposition(value) ==
    IF /\ Len(value) = Len(TdJsonEmpty)
       /\ value[1] = "["
       /\ value[2] \in Digits
       /\ SubSeq(value, 3, Len(value)) = SubSeq(TdJsonEmpty, 3, Len(TdJsonEmpty))
    THEN [ok |-> TRUE, td |-> [treewidth |-> DigitVal(value[2]), bags |-> <<>>, edges |-> <<>>, present |-> TRUE]]
    ELSE [ok |-> FALSE, td |-> NoTd]

try_parse_header(line) ==
    LET parts == split(line, " ")
        none  == [some |-> FALSE, num_trees |-> Small(0, UsizeLimbs), num_leaves |-> Small(0, UsizeLimbs)]
    IN IF parts[1] # <<"#", "p">> THEN none
       ELSE IF Len(parts) < 2 \/ ~parse_usize(parts[2]).ok THEN none
       ELSE IF Len(parts) < 3 \/ ~parse_usize(parts[3]).ok THEN none
       ELSE [some |-> TRUE, num_trees |-> parse_usize(parts[2]).v, num_leaves |-> parse_usize(parts[3]).v]

try_parse_approx(line) ==
    LET parts == split(line, " ")
        none  == [some |-> FALSE, param_a |-> NoF64, param_b |-> Small(0, UsizeLimbs)]
    IN IF parts[1] # <<"#", "a">> THEN none
       ELSE IF Len(parts) < 2 \/ ~parse_f64(parts[2]).ok THEN none
       ELSE IF f64_is_negative(parse_f64(parts[2])) THEN none
       ELSE IF Len(parts) < 3 \/ ~parse_usize(parts[3]).ok THEN none
       ELSE [some |-> TRUE, param_a |-> parse_f64(parts[2]), param_b |-> parse_usize(parts[3]).v]

\* `line[3..]` panics when the line is shorter than three bytes
try_split_key_value(line) ==
    IF Len(line) < 3
    THEN [panic |-> TRUE, some |-> FALSE, key |-> <<>>, value |-> <<>>]
    ELSE LET at == find(SubSeq(line, 4, Len(line)), " ")
         IN IF at = NoneVal
            THEN [panic |-> FALSE, some |-> FALSE, key |-> <<>>, value |-> <<>>]
            ELSE LET splitAt == at + 3
                 IN [panic |-> FALSE, some |-> TRUE,
                     key   |-> trim(SubSeq(line, 3, splitAt)),
                     value |-> trim(SubSeq(line, splitAt + 2, Len(line)))]

----------------------------------------------------------------------------
\* Newick lexer (src/newick/lexer.rs)

\* Lexer::new: strict, at the start of the input
lexer_new(input) == [input |-> input, pos |-> 0, allow_whitespace |-> FALSE]

\* Lexer::allow_whitespaces
allow_whitespaces(lx) == [lx EXCEPT !.allow_whitespace = TRUE]

NoToken == [offset |-> NoneVal, token_type |-> "None", number |-> Small(0, U32Limbs)]

\* what Iterator::next returns, and the lexer after the call:
\* kind is "token" (Some(Ok)), "err" (Some(Err(UnexpectedChar))), "none" (None)
\* or "panic" (arithmetic overflow in a build with overflow checks)
LexItem(kind, token, character, offset, lx) ==
    [kind |-> kind, token |-> token, character |-> character, offset |-> offset, lexer |-> lx]

\* the end (0-based, exclusive) of the run of ASCII digits that starts at `from`
RECURSIVE digits_end(_, _)
digits_end(input, from) ==
    IF from < Len(input) /\ input[from + 1] \in Digits THEN digits_end(input, from + 1) ELSE from

\* Lexer::try_parse_number: the u32 of the digit run at the current position,
\* accumulated by number * 10 + digit in 32 bits
try_parse_number(lx) ==
    IF lx.pos >= Len(lx.input) \/ lx.input[lx.pos + 1] \notin Digits
    THEN [some |-> FALSE, panic |-> FALSE, offset |-> NoneVal, number |-> Small(0, U32Limbs), lexer |-> lx]
    ELSE LET stop == digits_end(lx.input, lx.pos)
             acc  == DecimalValue(SubSeq(lx.input, lx.pos + 1, stop), U32Limbs)
         IN [some |-> TRUE, panic |-> overflow_checks /\ ~acc.fits, offset |-> lx.pos,
             number |-> acc.v, lexer |-> [lx EXCEPT !.pos = stop]]

\* <Lexer as Iterator>::next
RECURSIVE lexer_next(_)
lexer_next(lx) ==
    LET n == try_parse_number(lx)
    IN IF n.some
       THEN IF n.panic THEN LexItem("panic", NoToken, "", NoneVal, n.lexer)
            ELSE LexItem("token", [offset |-> n.offset, token_type |-> "Number", number |-> n.number], "", NoneVal, n.lexer)
       ELSE IF lx.pos >= Len(lx.input) THEN LexItem("none", NoToken, "", NoneVal, lx)
       ELSE LET offset    == lx.pos
                next_char == lx.input[lx.pos + 1]
                after     == [lx EXCEPT !.pos = lx.pos + 1]
                tok(ty)   == LexItem("token", [offset |-> offset, token_type |-> ty, number |-> Small(0, U32Limbs)], "", NoneVal, after)
            IN IF next_char = "(" THEN tok("ParOpen")
               ELSE IF next_char = ")" THEN tok("ParClose")
               ELSE IF next_char = "," THEN tok("Comma")
               ELSE IF next_char = ";" THEN tok("Semicolon")
               ELSE IF lx.allow_whitespace /\ next_char \in Whitespace THEN lexer_next(after)
               ELSE LexItem("err", NoToken, next_char, offset, after)

----------------------------------------------------------------------------
\* Tree builders and trees (src/binary_tree)

\* incremented that returns the id it was given
incremented_stuck(id) == [v |-> id, panic |-> FALSE]

\* NodeIdx::incremented: self.0 + 1 in 32 bits
incremented(id) ==
    LET s == MulAdd(id, 1, 1)
    IN [v |-> s.v, panic |-> overflow_checks /\ s.carry # 0]

NoNode == [kind |-> "None"]

\* TreeBuilder::new_inner of BinTreeBuilder (the id is dropped) and of
\* IndexedBinTreeBuilder (the id is kept)
new_inner(b, id, left, right) ==
    IF b = "plain"
    THEN [kind |-> "Node", left |-> left, right |-> right]
    ELSE [kind |-> "Node", idx |-> id, left |-> left, right |-> right]

\* TreeBuilder::new_leaf
new_leaf(b, label) == [kind |-> "Leaf", label |-> label]

\* TreeBuilder::make_root: the default, which both builders keep
make_root(b, root) == root

\* TopDownCursor::children
children(node) ==
    IF node.kind = "Node" THEN [some |-> TRUE, left |-> node.left, right |-> node.right]
    ELSE [some |-> FALSE, left |-> NoNode, right |-> NoNode]

\* TopDownCursor::leaf_label
leaf_label(node) ==
    IF node.kind = "Leaf" THEN [some |-> TRUE, label |-> node.label]
    ELSE [some |-> FALSE, label |-> Small(0, U32Limbs)]

\* TreeWithNodeIdx::node_idx of IndexedBinTree: the index of an inner node,
\* the label of a leaf
node_idx(node) == IF node.kind = "Node" THEN node.idx ELSE node.label

----------------------------------------------------------------------------
\* Newick parser (src/newick/binary_tree_parser.rs)

NoErr == [kind |-> "None", token |-> NoToken, character |-> "", offset |-> NoneVal]

\* Result<(B::Node, NodeIdx), ParserError>, the lexer after the call and the
\* calls the function made on the builder, in order; status is "ok", "err" or
\* "panic"
POk(node, next_id, lx) ==
    [status |-> "ok", node |-> node, next_id |-> next_id, err |-> NoErr, lexer |-> lx, log |-> <<>>]

PErr(kind, token, lx) ==
    [status |-> "err", node |-> NoNode, next_id |-> Small(0, U32Limbs),
     err |-> [kind |-> kind, token |-> token, character |-> "", offset |-> NoneVal], lexer |-> lx,
     log |-> <<>>]

PLexErr(item) ==
    [status |-> "err", node |-> NoNode, next_id |-> Small(0, U32Limbs),
     err |-> [kind |-> "Lexer", token |-> NoToken, character |-> item.character, offset |-> item.offset],
     lexer |-> item.lexer, log |-> <<>>]

PPanic(lx) ==
    [status |-> "panic", node |-> NoNode, next_id |-> Small(0, U32Limbs), err |-> NoErr, lexer |-> lx,
     log |-> <<>>]

\* one call on the builder: the method, its arguments and the node it returned
BuilderCall(op, id, label, left, right, ret) ==
    [op |-> op, id |-> id, label |-> label, left |-> left, right |-> right, ret |-> ret]

\* builder.new_leaf(Label(x)), logged
call_new_leaf(b, x) ==
    BuilderCall("new_leaf", Small(0, U32Limbs), x, NoNode, NoNode, new_leaf(b, x))

\* builder.new_inner(own_id, left_child, right_child), logged
call_new_inner(b, own_id, left, right) ==
    BuilderCall("new_inner", own_id, Small(0, U32Limbs), left, right, new_inner(b, own_id, left, right))

\* self.make_root(tree), logged
call_make_root(b, tree) ==
    BuilderCall("make_root", Small(0, U32Limbs), Small(0, U32Limbs), tree, NoNode, make_root(b, tree))

\* the result res of a step, after the builder calls made before the step
After(before, res) == [res EXCEPT !.log = before \o @]

\* `lexer.next().ok_or(ParserError::UnexpectedEnd)??`: the failure of a token read
PNoToken(item) ==
    IF item.kind = "none" THEN PErr("UnexpectedEnd", NoToken, item.lexer)
    ELSE IF item.kind = "err" THEN PLexErr(item)
    ELSE PPanic(item.lexer)

assert_next_token_else(lx, expected, error) ==
    LET item == lexer_next(lx)
    IN IF item.kind # "token" THEN PNoToken(item)
       ELSE IF item.token.token_type = expected
       THEN POk(NoNode, Small(0, U32Limbs), item.lexer)
       ELSE PErr(error, item.token, item.lexer)

RECURSIVE parse_inner(_, _, _)

\* the inner node built with the id left over after its children, not its own
parse_inner_close_post_order(b, own_id, l, r, closing) ==
    IF closing.status # "ok" THEN After(l.log \o r.log, closing)
    ELSE After(l.log \o r.log \o <<call_new_inner(b, r.next_id, l.node, r.node)>>,
               POk(new_inner(b, r.next_id, l.node, r.node), r.next_id, closing.lexer))

\* parse_inner after the closing parenthesis was asked for: the inner node
parse_inner_close(b, own_id, l, r, closing) ==
    IF closing.status # "ok" THEN After(l.log \o r.log, closing)
    ELSE After(l.log \o r.log \o <<call_new_inner(b, own_id, l.node, r.node)>>,
               POk(new_inner(b, own_id, l.node, r.node), r.next_id, closing.lexer))

\* parse_inner after the right child was parsed
parse_inner_right(b, own_id, l, r) ==
    IF r.status # "ok" THEN After(l.log, r)
    ELSE parse_inner_close(b, own_id, l, r, assert_next_token_else(r.lexer, "ParClose", "ExpectedClosing"))

\* parse_inner whose right child starts again at own_id.incremented()
parse_inner_comma_restarting(b, own_id, l, comma) ==
    IF comma.status # "ok" THEN After(l.log, comma)
    ELSE parse_inner_right(b, own_id, l, parse_inner(b, comma.lexer, incremented(own_id).v))

\* parse_inner after the comma was asked for: the right child starts at the
\* id the left subtree returned
parse_inner_comma(b, own_id, l, comma) ==
    IF comma.status # "ok" THEN After(l.log, comma)
    ELSE parse_inner_right(b, own_id, l, parse_inner(b, comma.lexer, l.next_id))

\* parse_inner after the left child was parsed
parse_inner_left(b, own_id, l) ==
    IF l.status # "ok" THEN l
    ELSE parse_inner_comma(b, own_id, l, assert_next_token_else(l.lexer, "Comma", "ExpectedComma"))

\* the ParOpen arm: the left child starts at own_id.incremented()
parse_inner_open(b, lx, own_id, first) ==
    IF first.panic THEN PPanic(lx)
    ELSE parse_inner_left(b, own_id, parse_inner(b, lx, first.v))

\* the match on the token read
parse_inner_token(b, item, own_id) ==
    IF item.kind # "token" THEN PNoToken(item)
    ELSE IF item.token.token_type = "ParOpen" THEN parse_inner_open(b, item.lexer, own_id, incremented(own_id))
    ELSE IF item.token.token_type = "Number"
    THEN After(<<call_new_leaf(b, item.token.number)>>, POk(new_leaf(b, item.token.number), own_id, item.lexer))
    ELSE PErr("ExpectedNodeBegin", item.token, item.lexer)

parse_inner(b, lx, own_id) == parse_inner_token(b, lexer_next(lx), own_id)

\* parse_newick_from_lexer with make_root called before the semicolon is asked for
parse_newick_end_root_first(b, t, semi) ==
    IF semi.status # "ok" THEN After(t.log \o <<call_make_root(b, t.node)>>, semi)
    ELSE After(t.log \o <<call_make_root(b, t.node)>>, POk(make_root(b, t.node), t.next_id, semi.lexer))

\* parse_newick_from_lexer after the semicolon was asked for
parse_newick_end(b, t, semi) ==
    IF semi.status # "ok" THEN After(t.log, semi)
    ELSE After(t.log \o <<call_make_root(b, t.node)>>, POk(make_root(b, t.node), t.next_id, semi.lexer))

\* parse_newick_from_lexer after the top-level tree was parsed
parse_newick_top(b, t) ==
    IF t.status # "ok" THEN t
    ELSE parse_newick_end(b, t, assert_next_token_else(t.lexer, "Semicolon", "ExpectedEnd"))

\* BinaryTreeParser::parse_newick_from_lexer
parse_newick_from_lexer(b, lx, rid) == parse_newick_top(b, parse_inner(b, lx, rid))

\* BinaryTreeParser::parse_newick_from_str
parse_newick_from_str(b, txt, rid) == parse_newick_from_lexer(b, lexer_new(txt), rid)

----------------------------------------------------------------------------
\* Newick writer (src/newick/binary_tree_writer.rs)

RECURSIVE write_newick_inner(_)

\* the writer with the two children in the wrong order
write_newick_inner_swapped(node) ==
    IF children(node).some
    THEN <<"(">> \o write_newick_inner(children(node).right) \o <<",">>
               \o write_newick_inner(children(node).left) \o <<")">>
    ELSE to_decimal(leaf_label(node).label)

\* BinaryTreeWriter::write_newick_inner
write_newick_inner(node) ==
    IF children(node).some
    THEN <<"(">> \o write_newick_inner(children(node).left) \o <<",">>
               \o write_newick_inner(children(node).right) \o <<")">>
    ELSE to_decimal(leaf_label(node).label)

\* the writer without the closing semicolon
to_newick_string_unterminated(node) == write_newick_inner(node)

\* write_newick / to_newick_string
to_newick_string(node) == write_newick_inner(node) \o <<";">>

\* no parse made yet
NoParse == PPanic(lexer_new(<<>>))

----------------------------------------------------------------------------
\* InstanceReader::read and a visitor that records every call

Continue == "Continue"

Terminate == "Terminate"

Action == {Continue, Terminate}

\* a handler call that counts lines from one
Call_one_based(h, ln, line) ==
    [h |-> h, lineno |-> ln + 1, line |-> line,
     num_trees |-> Small(0, UsizeLimbs), num_leaves |-> Small(0, UsizeLimbs),
     key |-> <<>>, value |-> <<>>,
     param_a |-> NoF64, param_b |-> Small(0, UsizeLimbs),
     td |-> NoTd, ret |-> Continue]

\* one handler call: the handler, its arguments, and the Action it returned
Call(h, ln, line) ==
    [h |-> h, lineno |-> ln, line |-> line,
     num_trees |-> Small(0, UsizeLimbs), num_leaves |-> Small(0, UsizeLimbs),
     key |-> <<>>, value |-> <<>>,
     param_a |-> NoF64, param_b |-> Small(0, UsizeLimbs),
     td |-> NoTd, ret |-> Continue]

\* ReaderResult<()>: Ok, a ReaderError, or a panic; Running while read is in the loop
Res(kind) == [kind |-> kind, lineno |-> NoneVal, lineno0 |-> NoneVal, lineno1 |-> NoneVal, key |-> <<>>]

Running == Res("Running")

NoCall == Call("none", NoneVal, <<>>)

Skip(hl) == [kind |-> "none", call |-> NoCall, err |-> Running, header_line |-> hl]

Visit(c, hl) == [kind |-> "call", call |-> c, err |-> Running, header_line |-> hl]

Fail(e, hl) == [kind |-> "err", call |-> NoCall, err |-> e, header_line |-> hl]

\* the `#p` branch without the test for an earlier header
dispatch_header_repeatable(content, ln, hl) ==
    LET h == try_parse_header(content)
    IN IF h.some
       THEN Visit([Call("visit_header", ln, <<>>) EXCEPT !.num_trees = h.num_trees, !.num_leaves = h.num_leaves], ln)
       ELSE Fail([Res("InvalidHeaderLine") EXCEPT !.lineno = ln], ln)

\* the `#p` branch
dispatch_header(content, ln, hl) ==
    IF hl # NoneVal
    THEN Fail([Res("MultipleHeaders") EXCEPT !.lineno0 = hl, !.lineno1 = ln], hl)
    ELSE LET h == try_parse_header(content)
         IN IF h.some
            THEN Visit([Call("visit_header", ln, <<>>) EXCEPT !.num_trees = h.num_trees, !.num_leaves = h.num_leaves], ln)
            ELSE Fail([Res("InvalidHeaderLine") EXCEPT !.lineno = ln], ln)

\* the `#s` branch
dispatch_stride(content, ln, hl) ==
    LET kv == try_split_key_value(content)
    IN IF kv.panic THEN Fail(Res("Panic"), hl)
       ELSE IF kv.some
       THEN Visit([Call("visit_stride_line", ln, content) EXCEPT !.key = kv.key, !.value = kv.value], hl)
       ELSE Fail([Res("InvalidStrideLine") EXCEPT !.lineno = ln], hl)

\* the `#a` branch
dispatch_approx(content, ln, hl) ==
    LET ab == try_parse_approx(content)
    IN IF ab.some
       THEN Visit([Call("visit_approx_line", ln, <<>>) EXCEPT !.param_a = ab.param_a, !.param_b = ab.param_b], hl)
       ELSE Fail([Res("InvalidApproxLine") EXCEPT !.lineno = ln], hl)

\* the `#x` branch with the decode made whatever the visitor's flag is
dispatch_param_always_decoding(content, ln, hl, flag) ==
    LET kv == try_split_key_value(content)
    IN IF kv.panic THEN Fail(Res("Panic"), hl)
       ELSE IF ~kv.some THEN Fail([Res("InvalidParameterLine") EXCEPT !.lineno = ln], hl)
       ELSE IF kv.key = <<"t", "r", "e", "e", "d", "e", "c", "o", "m", "p">>
       THEN LET j == decode_tree_decomposition(kv.value)
            IN IF j.ok
               THEN Visit([Call("visit_param_tree_decomposition", ln, <<>>) EXCEPT !.td = j.td], hl)
               ELSE Fail([Res("InvalidJSON") EXCEPT !.lineno = ln], hl)
       ELSE Fail([Res("UnknownParameter") EXCEPT !.lineno = ln, !.key = kv.key], hl)

\* the `#x` branch
dispatch_param(content, ln, hl, flag) ==
    LET kv == try_split_key_value(content)
    IN IF kv.panic THEN Fail(Res("Panic"), hl)
       ELSE IF ~kv.some THEN Fail([Res("InvalidParameterLine") EXCEPT !.lineno = ln], hl)
       ELSE IF kv.key = <<"t", "r", "e", "e", "d", "e", "c", "o", "m", "p">>
       THEN IF flag
            THEN LET j == decode_tree_decomposition(kv.value)
                 IN IF j.ok
                    THEN Visit([Call("visit_param_tree_decomposition", ln, <<>>) EXCEPT !.td = j.td], hl)
                    ELSE Fail([Res("InvalidJSON") EXCEPT !.lineno = ln], hl)
            ELSE Skip(hl)
       ELSE Fail([Res("UnknownParameter") EXCEPT !.lineno = ln, !.key = kv.key], hl)

\* the category part with the test for a closing `;` made first
dispatch_tree_first(content, ln, hl, flag) ==
    IF ends_with(content, <<";">>) THEN Visit(Call("visit_tree", ln, content), hl)
    ELSE IF starts_with(content, <<"#">>)
    THEN IF starts_with(content, <<"#", " ">>) THEN Skip(hl)
         ELSE IF starts_with(content, <<"#", "p">>) THEN dispatch_header(content, ln, hl)
         ELSE IF starts_with(content, <<"#", "s">>) THEN dispatch_stride(content, ln, hl)
         ELSE IF starts_with(content, <<"#", "a">>) THEN dispatch_approx(content, ln, hl)
         ELSE IF starts_with(content, <<"#", "x">>) THEN dispatch_param(content, ln, hl, flag)
         ELSE Visit(Call("visit_unrecognized_hash_line", ln, content), hl)
    ELSE Visit(Call("visit_unrecognized_line", ln, content), hl)

\* The category part of one loop iteration, for a non-empty trimmed line: the
\* handler to call, the error to return, or nothing; and header_line after it.
dispatch(content, ln, hl, flag) ==
    IF starts_with(content, <<"#">>)
    THEN IF starts_with(content, <<"#", " ">>) THEN Skip(hl)
         ELSE IF starts_with(content, <<"#", "p">>) THEN dispatch_header(content, ln, hl)
         ELSE IF starts_with(content, <<"#", "s">>) THEN dispatch_stride(content, ln, hl)
         ELSE IF starts_with(content, <<"#", "a">>) THEN dispatch_approx(content, ln, hl)
         ELSE IF starts_with(content, <<"#", "x">>) THEN dispatch_param(content, ln, hl, flag)
         ELSE Visit(Call("visit_unrecognized_hash_line", ln, content), hl)
    ELSE IF ends_with(content, <<";">>) THEN Visit(Call("visit_tree", ln, content), hl)
    ELSE Visit(Call("visit_unrecognized_line", ln, content), hl)

\* a test that sees trailing whitespace only
has_extra_whitespace_trailing(line) == line # <<>> /\ line[Len(line)] \in Whitespace

\* `content.len() != line.len()`: the line has extra whitespace
has_extra_whitespace(line) == Len(trim(line)) # Len(line)

\* one iteration that drops the Action the whitespace handler returned
read_iteration_ignoring_ws_action(line, ln, hl, flag, wsRet, catRet) ==
    LET content == trim(line)
        wsCalls == IF has_extra_whitespace(line)
                   THEN <<[Call("visit_line_with_extra_whitespace", ln, line) EXCEPT !.ret = wsRet]>>
                   ELSE <<>>
    IN IF content = <<>>
       THEN [calls |-> wsCalls, result |-> Running, header_line |-> hl]
       ELSE LET d == dispatch(content, ln, hl, flag)
            IN IF d.kind = "err"
               THEN [calls |-> wsCalls, result |-> d.err, header_line |-> d.header_line]
               ELSE IF d.kind = "call"
               THEN [calls |-> wsCalls \o <<[d.call EXCEPT !.ret = catRet]>>,
                     result |-> IF catRet = Terminate THEN Res("Ok") ELSE Running,
                     header_line |-> d.header_line]
               ELSE [calls |-> wsCalls, result |-> Running, header_line |-> d.header_line]

\* One iteration of the loop of read, with the Actions the visitor returns for
\* the whitespace handler (wsRet) and for the category handler (catRet).
read_iteration(line, ln, hl, flag, wsRet, catRet) ==
    LET content == trim(line)
        wsCalls == IF has_extra_whitespace(line)
                   THEN <<[Call("visit_line_with_extra_whitespace", ln, line) EXCEPT !.ret = wsRet]>>
                   ELSE <<>>
    IN IF wsCalls # <<>> /\ wsRet = Terminate
       THEN [calls |-> wsCalls, result |-> Res("Ok"), header_line |-> hl]
       ELSE IF content = <<>>
       THEN [calls |-> wsCalls, result |-> Running, header_line |-> hl]
       ELSE LET d == dispatch(content, ln, hl, flag)
            IN IF d.kind = "err"
               THEN [calls |-> wsCalls, result |-> d.err, header_line |-> d.header_line]
               ELSE IF d.kind = "call"
               THEN [calls |-> wsCalls \o <<[d.call EXCEPT !.ret = catRet]>>,
                     result |-> IF catRet = Terminate THEN Res("Ok") ELSE Running,
                     header_line |-> d.header_line]
               ELSE [calls |-> wsCalls, result |-> Running, header_line |-> d.header_line]

\* The lines the input streams are made of
LineEmpty == <<>>

LineBlank == <<"\t">>

LineComment == <<"#", " ", "c", ";">>

LineHeader == <<"#", "p", " ", "2", " ", "3">>

LineHeaderBad == <<" ", "#", "p", " ", "x">>

LineStride == <<"#", "s", " ", "k", " ", "v">>

LineStrideShort == <<"#", "s">>

LineTreeDecomp == <<"#", "x", " ", "t", "r", "e", "e", "d", "e", "c", "o", "m", "p", " ">> \o TdJsonEmpty

LineHashOther == <<" ", "#", "q", ";">>

LineTree == <<"(", "1", ")", ";">>

LineOther == <<"(", "3", ")", "m">>

\* the alphabet of lines; a stream is a sequence of positions in it
LinePool ==
    <<LineEmpty, LineBlank, LineComment, LineHeader, LineHeaderBad, LineStride,
      LineStrideShort, LineTreeDecomp, LineHashOther, LineTree, LineOther>>

Streams == UNION {[1..n -> 1..Len(LinePool)] : n \in 0..MaxLines}

\* lines of parameter and stride lines
LineParamShort == <<"#", "x">>

LineParamNoSpace == <<"#", "x", "k">>

LineParamNoValue == <<"#", "x", " ", "k">>

LineParamUnknown == <<"#", "x", " ", "k", " ", "v">>

LineParamEmptyKey == <<"#", "x", " ", " ", "k", " ", "v">>

LineTreeDecompNoValue == <<"#", "x", " ", "t", "r", "e", "e", "d", "e", "c", "o", "m", "p">>

LineTreeDecompBad == <<"#", "x", " ", "t", "r", "e", "e", "d", "e", "c", "o", "m", "p", " ", "[">>

LineStrideNoSpace == <<"#", "s", "k">>

LineStrideNoValue == <<"#", "s", " ", "k">>

LineStrideWords == <<" ", "#", "s", " ", "k", " ", "v", " ", "w", "\t">>

LineStrideEmptyKey == <<"#", "s", " ", " ", "k", " ", "v">>

LineStrideJoined == <<"#", "s", "k", " ", "v">>

\* the lines of the streams of parameter and stride lines
ParamPool ==
    <<LineParamShort, LineParamNoSpace, LineParamNoValue, LineParamUnknown, LineParamEmptyKey,
      LineTreeDecompNoValue, LineTreeDecompBad, LineTreeDecomp,
      LineStrideShort, LineStrideNoSpace, LineStrideNoValue, LineStride, LineStrideWords,
      LineStrideEmptyKey, LineStrideJoined>>

\* headers and trees of the streams Instance::try_read is given
LineHeaderNoLeaves == <<"#", "p", " ", "2", " ", "0">>

\* a leaf count L with 1 * (L - 1) + 2 = 2^32
LineHeaderWide == <<"#", "p", " ", "1", " ">> \o <<"4", "2", "9", "4", "9", "6", "7", "2", "9", "5">>

\* the leaf count usize::MAX
LineHeaderMax ==
    <<"#", "p", " ", "1", " ">>
        \o <<"1", "8", "4", "4", "6", "7", "4", "4", "0", "7", "3", "7", "0", "9", "5", "5", "1", "6", "1", "5">>

LineTree3 == <<"(", "(", "1", ",", "2", ")", ",", "3", ")", ";">>

LineTree4 == <<"(", "(", "1", ",", "2", ")", ",", "(", "3", ",", "4", ")", ")", ";">>

\* a second payload, of treewidth 2
LineTreeDecompTwo ==
    <<"#", "x", " ", "t", "r", "e", "e", "d", "e", "c", "o", "m", "p", " ">>
        \o <<"[", "2", ",", "[", "]", ",", "[", "]", "]">>

\* the lines of the streams Instance::try_read is given
InstancePool ==
    <<LineHeader, LineHeaderNoLeaves, LineHeaderWide, LineHeaderMax, LineHeaderBad,
      LineTree3, LineTree4, LineTree, LineTreeDecomp, LineTreeDecompTwo>>

\* `#a` and `#p` lines, well-formed and not
LineApprox == <<"#", "a", " ", "1", ".", "5", " ", "4", "2">>

LineApproxNegative == <<"#", "a", " ", "-", "1", ".", "5", " ", "4", "2">>

LineApproxWordA == <<"#", "a", " ", "x", " ", "3">>

LineApproxWordB == <<"#", "a", " ", "1", ".", "5", " ", "x">>

LineApproxNegativeB == <<"#", "a", " ", "1", ".", "5", " ", "-", "4">>

LineApproxNoB == <<"#", "a", " ", "1", ".", "5">>

LineApproxNan == <<"#", "a", " ", "n", "a", "n", " ", "3">>

LineApproxNegativeZero == <<"#", "a", " ", "-", "0", " ", "3">>

LineApproxInf == <<"#", "a", " ", "i", "n", "f", " ", "3">>

LineApproxExtra == <<"#", "a", " ", "1", " ", "2", " ", "x">>

LineApproxGlued == <<"#", "a", "x", " ", "1", " ", "2">>

LineApproxShort == <<"#", "a">>

LineApproxWide == <<"#", "a", " ", " ", "1", " ", "2">>

LineApproxPlusB == <<"#", "a", " ", "1", " ", "+", "5">>

LineHeaderNoLeafField == <<"#", "p", " ", "2">>

LineHeaderWordTrees == <<"#", "p", " ", "x", " ", "3">>

LineHeaderWordLeaves == <<"#", "p", " ", "2", " ", "x">>

LineHeaderExtra == <<"#", "p", " ", "2", " ", "3", " ", "x">>

LineHeaderGlued == <<"#", "p", "x", " ", "2", " ", "3">>

LineHeaderShort == <<"#", "p">>

LineHeaderSpaced == <<"#", "p", " ", " ", "2", " ", "3">>

LineHeaderPlus == <<"#", "p", " ", "+", "2", " ", "3">>

LineHeaderNegative == <<"#", "p", " ", "2", " ", "-", "3">>

\* the lines of the streams of `#a` and `#p` lines
FieldPool ==
    <<LineApprox, LineApproxNegative, LineApproxWordA, LineApproxWordB, LineApproxNegativeB,
      LineApproxNoB, LineApproxNan, LineApproxNegativeZero, LineApproxInf, LineApproxExtra,
      LineApproxGlued, LineApproxShort, LineApproxWide, LineApproxPlusB,
      LineHeader, LineHeaderBad, LineHeaderNoLeafField, LineHeaderWordTrees, LineHeaderWordLeaves,
      LineHeaderExtra, LineHeaderGlued, LineHeaderShort, LineHeaderSpaced, LineHeaderPlus,
      LineHeaderNegative>>

\* every line of the model; a stream is a sequence of positions in it
AllLines == LinePool \o ParamPool \o InstancePool \o FieldPool

\* the text of the line at 0-based position ln of the stream
line_at(ln) == AllLines[stream[ln + 1]]

\* Instance { num_leaves: 0, trees: Vec::with_capacity(2), tree_decomposition: None }
instance_new == [num_leaves |-> Small(0, UsizeLimbs), trees |-> <<>>, tree_decomposition |-> NoTd]

NoLeafCount == [some |-> FALSE, v |-> Small(0, UsizeLimbs)]

\* Option<SimplifiedReaderError> of the visitor: None
NoError == [kind |-> "None", err |-> NoErr, reader |-> Res("None")]

\* Visitor { builder, instance, num_leaves: None, error: None }
visitor_new == [num_leaves |-> NoLeafCount, error |-> NoError]

\* what try_read returned; Pending until it returns
Outcome(kind, error, inst) == [kind |-> kind, error |-> error, instance |-> inst]

Pending == Outcome("Pending", NoError, instance_new)

\* no traversal is under way
DfsIdle ==
    /\ stack = <<>>
    /\ yielded = <<>>

\* no lexer is being iterated
LexerIdle ==
    /\ lexer = lexer_new(<<>>)
    /\ items = <<>>

InstanceIdle ==
    /\ instance = instance_new
    /\ visitor = visitor_new
    /\ parse_calls = <<>>
    /\ outcome = Outcome("Idle", NoError, instance_new)

NewickIdle ==
    /\ text = <<>>
    /\ root_id = Small(0, U32Limbs)
    /\ builder = "plain"
    /\ overflow_checks = FALSE
    /\ phase = "idle"
    /\ parsed = NoParse
    /\ written = <<>>
    /\ reparsed = NoParse
    /\ rewritten = <<>>

Init ==
    /\ stream \in Streams
    /\ visit_td \in BOOLEAN
    /\ lineno = 0
    /\ header_line = NoneVal
    /\ calls = <<>>
    /\ result = Running
    /\ NewickIdle
    /\ InstanceIdle
    /\ LexerIdle
    /\ DfsIdle

\* one iteration of `for (lineno, line) in reader.lines().enumerate()`
read_line ==
    /\ result = Running
    /\ lineno < Len(stream)
    /\ \E wsRet \in Action, catRet \in Action :
         LET it == read_iteration(line_at(lineno), lineno, header_line, visit_td, wsRet, catRet)
         IN /\ calls' = calls \o it.calls
            /\ result' = it.result
            /\ header_line' = it.header_line
            /\ lineno' = IF it.result = Running THEN lineno + 1 ELSE lineno
    /\ UNCHANGED <<stream, visit_td>>
    /\ UNCHANGED newickVars
    /\ UNCHANGED lexerVars
    /\ UNCHANGED dfsVars
    /\ UNCHANGED instanceVars

\* the iterator is exhausted: `Ok(())`
read_end ==
    /\ result = Running
    /\ lineno = Len(stream)
    /\ result' = Res("Ok")
    /\ UNCHANGED <<stream, visit_td, lineno, header_line, calls>>
    /\ UNCHANGED newickVars
    /\ UNCHANGED lexerVars
    /\ UNCHANGED dfsVars
    /\ UNCHANGED instanceVars

Next == read_line \/ read_end

Spec == Init /\ [][Next]_vars

----------------------------------------------------------------------------
\* The round trip parse, write, parse again, write again

\* numerals of the leaves: zero, a numeral with a leading zero, the largest u32
NumeralPool ==
    {<<"0">>, <<"0", "7">>, <<"4", "2", "9", "4", "9", "6", "7", "2", "9", "5">>}

\* the smallest numeral that does not fit a u32
NumeralTooWide == <<"4", "2", "9", "4", "9", "6", "7", "2", "9", "6">>

\* the strings of `Tree` with k leaves
RECURSIVE TreeTexts(_)
TreeTexts(k) ==
    IF k = 1 THEN NumeralPool
    ELSE UNION {{<<"(">> \o l \o <<",">> \o r \o <<")">> : l \in TreeTexts(i), r \in TreeTexts(k - i)} : i \in 1..(k - 1)}

\* strings of `Tree` with a leaf that does not fit a u32
WideTexts == {NumeralTooWide, <<"(">> \o NumeralTooWide \o <<",", "0", ")">>}

\* strings of `TopLevel := Tree ';'` with at most MaxLeaves leaves
NewickTexts == {t \o <<";">> : t \in UNION {TreeTexts(k) : k \in 1..MaxLeaves} \cup WideTexts}

\* root ids: a small one, and the two largest NodeIdx
RootIds == {Small(6, U32Limbs), <<LimbBase - 2, LimbBase - 1>>, <<LimbBase - 1, LimbBase - 1>>}

Builders == {"plain", "indexed"}

ReaderIdle ==
    /\ stream = <<>>
    /\ visit_td = FALSE
    /\ lineno = 0
    /\ header_line = NoneVal
    /\ calls = <<>>
    /\ result = Res("Idle")

InitNewick ==
    /\ text \in NewickTexts
    /\ root_id \in RootIds
    /\ builder \in Builders
    /\ overflow_checks \in BOOLEAN
    /\ phase = "start"
    /\ parsed = NoParse
    /\ written = <<>>
    /\ reparsed = NoParse
    /\ rewritten = <<>>
    /\ ReaderIdle
    /\ InstanceIdle
    /\ LexerIdle
    /\ DfsIdle

\* builder.parse_newick_from_str(text, root_id)
Parse ==
    /\ phase = "start"
    /\ parsed' = parse_newick_from_str(builder, text, root_id)
    /\ phase' = "parsed"
    /\ UNCHANGED <<text, root_id, builder, overflow_checks, written, reparsed, rewritten>>
    /\ UNCHANGED readerVars
    /\ UNCHANGED lexerVars
    /\ UNCHANGED dfsVars
    /\ UNCHANGED instanceVars

\* tree.top_down().to_newick_string()
Write ==
    /\ phase = "parsed"
    /\ parsed.status = "ok"
    /\ written' = to_newick_string(parsed.node)
    /\ phase' = "written"
    /\ UNCHANGED <<text, root_id, builder, overflow_checks, parsed, reparsed, rewritten>>
    /\ UNCHANGED readerVars
    /\ UNCHANGED lexerVars
    /\ UNCHANGED dfsVars
    /\ UNCHANGED instanceVars

\* the writer's output parsed again, with the same builder and root id
Reparse ==
    /\ phase = "written"
    /\ reparsed' = parse_newick_from_str(builder, written, root_id)
    /\ phase' = "reparsed"
    /\ UNCHANGED <<text, root_id, builder, overflow_checks, parsed, written, rewritten>>
    /\ UNCHANGED readerVars
    /\ UNCHANGED lexerVars
    /\ UNCHANGED dfsVars
    /\ UNCHANGED instanceVars

\* the reparsed tree written again
Rewrite ==
    /\ phase = "reparsed"
    /\ reparsed.status = "ok"
    /\ rewritten' = to_newick_string(reparsed.node)
    /\ phase' = "rewritten"
    /\ UNCHANGED <<text, root_id, builder, overflow_checks, parsed, written, reparsed>>
    /\ UNCHANGED readerVars
    /\ UNCHANGED lexerVars
    /\ UNCHANGED dfsVars
    /\ UNCHANGED instanceVars

NextNewick == Parse \/ Write \/ Reparse \/ Rewrite

SpecNewick == InitNewick /\ [][NextNewick]_vars

----------------------------------------------------------------------------
\* Reference notions the reader's properties are stated with

\* the category of a trimmed line, by the first rule of the format that matches
Category(c) ==
    IF c = <<>> THEN "empty"
    ELSE IF Len(c) >= 2 /\ c[1] = "#" /\ c[2] = " " THEN "comment"
    ELSE IF Len(c) >= 2 /\ c[1] = "#" /\ c[2] = "p" THEN "header"
    ELSE IF Len(c) >= 2 /\ c[1] = "#" /\ c[2] = "s" THEN "stride"
    ELSE IF Len(c) >= 2 /\ c[1] = "#" /\ c[2] = "a" THEN "approx"
    ELSE IF Len(c) >= 2 /\ c[1] = "#" /\ c[2] = "x" THEN "param"
    ELSE IF c[1] = "#" THEN "hash"
    ELSE IF c[Len(c)] = ";" THEN "tree"
    ELSE "other"

\* the handler of a category ("none" for the categories without one)
HandlerOf(cat) ==
    CASE cat = "header" -> "visit_header"
      [] cat = "stride" -> "visit_stride_line"
      [] cat = "approx" -> "visit_approx_line"
      [] cat = "param"  -> "visit_param_tree_decomposition"
      [] cat = "hash"   -> "visit_unrecognized_hash_line"
      [] cat = "tree"   -> "visit_tree"
      [] cat = "other"  -> "visit_unrecognized_line"
      [] OTHER          -> "none"

\* the errors of a category
ErrorsOf(cat) ==
    CASE cat = "header" -> {"InvalidHeaderLine", "MultipleHeaders"}
      [] cat = "stride" -> {"InvalidStrideLine"}
      [] cat = "approx" -> {"InvalidApproxLine"}
      [] cat = "param"  -> {"InvalidParameterLine", "UnknownParameter", "InvalidJSON"}
      [] OTHER          -> {}

LineNumbers == 0..(Len(stream) - 1)

ContentAt(ln) == trim(line_at(ln))

\* a line with a whitespace character at its start or at its end
IsPadded(line) == line # <<>> /\ (line[1] \in Whitespace \/ line[Len(line)] \in Whitespace)

WsHandler == "visit_line_with_extra_whitespace"

\* positions in the log of the category-handler calls made for line ln
CategoryCalls(ln) == {i \in 1..Len(calls) : calls[i].lineno = ln /\ calls[i].h # WsHandler}

\* positions in the log of the whitespace-handler calls made for line ln
WsCalls(ln) == {i \in 1..Len(calls) : calls[i].lineno = ln /\ calls[i].h = WsHandler}

\* the loop has gone through the whole iteration of line ln and on to the next
Passed(ln) == ln < lineno

\* the loop has entered the iteration of line ln
Entered(ln) == ln \in LineNumbers /\ (ln < lineno \/ (ln = lineno /\ result # Running))

\* read returned because a handler returned Terminate
Terminated == \E i \in 1..Len(calls) : calls[i].ret = Terminate

\* the lines whose trimmed content starts with `#p`, and the first two of them
HeaderLines == {ln \in LineNumbers : starts_with(ContentAt(ln), <<"#", "p">>)}

FirstHeader == CHOOSE ln \in HeaderLines : \A m \in HeaderLines : ln <= m

SecondHeader == CHOOSE ln \in HeaderLines \ {FirstHeader} : \A m \in HeaderLines \ {FirstHeader} : ln <= m

\* the iteration of line ln got as far as the category test
Classified(ln) ==
    /\ Entered(ln)
    /\ ~(ln = lineno /\ Terminated /\ calls[Len(calls)].h = WsHandler)

----------------------------------------------------------------------------
\* C1: visit_header is called at most once.  Whenever the loop reaches the
\* category test of the second line whose trimmed content starts with `#p`
\* (well-formed or not), read returns MultipleHeaders with lineno0 the line of
\* the first such line and lineno1 the line of the second, and visit_header
\* is not called for the second line.
C1_SecondHeaderIsError ==
    /\ Cardinality({i \in 1..Len(calls) : calls[i].h = "visit_header"}) <= 1
    /\ Cardinality(HeaderLines) >= 2 =>
         /\ lineno <= SecondHeader
         /\ \A i \in 1..Len(calls) : calls[i].h = "visit_header" => calls[i].lineno = FirstHeader
         /\ Classified(SecondHeader) =>
              result = [Res("MultipleHeaders") EXCEPT !.lineno0 = FirstHeader, !.lineno1 = SecondHeader]

\* a second, malformed `#p` line was reached after a first header at line 1
C1_Witness ==
    /\ result.kind = "MultipleHeaders"
    /\ result.lineno0 = 1
    /\ result.lineno1 = 2
    /\ line_at(2) = LineHeaderBad

\* C2: once a handler has returned Terminate, read has returned Ok(()): the
\* terminating call is the last call of the log (no handler is invoked after
\* it, for the same line or a later one), the loop is still at the line of
\* that call, and the result is Ok whatever the rest of the stream holds.
C2_TerminateStopsRead ==
    Terminated =>
        /\ result = Res("Ok")
        /\ calls[Len(calls)].ret = Terminate
        /\ \A i \in 1..(Len(calls) - 1) : calls[i].ret = Continue
        /\ lineno = calls[Len(calls)].lineno
        /\ \A i \in 1..Len(calls) : calls[i].lineno <= lineno

\* the whitespace handler terminated on a padded line with a category handler,
\* and a malformed header line follows it in the stream
C2_Witness ==
    /\ Terminated
    /\ calls[Len(calls)].h = WsHandler
    /\ lineno = 0
    /\ line_at(0) = LineHashOther
    /\ Len(stream) = 2
    /\ line_at(1) = LineHeaderBad

\* C3 (as claimed): when read ends on a line that fails to parse under its
\* category, it returns an error of that category; no category handler was
\* called for that line nor any handler for a later line, and the calls made
\* for the preceding lines are all there, each having returned Continue.
C3_FirstFailureReturnsCategoryError ==
    result.kind \notin {"Running", "Ok"} =>
        /\ result.kind \in ErrorsOf(Category(ContentAt(lineno)))
        /\ CategoryCalls(lineno) = {}
        /\ \A i \in 1..Len(calls) : calls[i].lineno <= lineno /\ calls[i].ret = Continue
        /\ \A ln \in 0..(lineno - 1) :
             HandlerOf(Category(ContentAt(ln))) \notin {"none", "visit_param_tree_decomposition"}
                => Cardinality(CategoryCalls(ln)) = 1

\* C4: every category-handler call is the call of the handler of the category
\* of its line, chosen by the first matching rule in the order comment, header,
\* stride, approximation, parameter, other `#` line, line ending in `;`, rest;
\* there is at most one such call per line, none for a comment or empty line,
\* exactly one for a line the loop went past whose category has a handler
\* (the parameter handler only if the visitor opted in), and a line starting
\* with `#` is never handed to visit_tree or visit_unrecognized_line.
C4_OneCategoryPerLine ==
    \A ln \in LineNumbers :
        LET cat == Category(ContentAt(ln))
        IN /\ Cardinality(CategoryCalls(ln)) <= 1
           /\ \A i \in CategoryCalls(ln) : calls[i].h = HandlerOf(cat)
           /\ cat \in {"empty", "comment"} => CategoryCalls(ln) = {}
           /\ (Passed(ln) /\ cat \in {"header", "stride", "approx", "hash", "tree", "other"})
                => Cardinality(CategoryCalls(ln)) = 1
           /\ (Passed(ln) /\ cat = "param") => (Cardinality(CategoryCalls(ln)) = 1 <=> visit_td)
           /\ (ContentAt(ln) # <<>> /\ ContentAt(ln)[1] = "#")
                => \A i \in CategoryCalls(ln) : calls[i].h \notin {"visit_tree", "visit_unrecognized_line"}

\* a `#` line ending in `;` went to the unrecognized-hash handler, a comment
\* ending in `;` to no handler, and a tree line to visit_tree
C4_Witness ==
    /\ lineno = 3
    /\ line_at(0) = LineHashOther
    /\ line_at(1) = LineComment
    /\ line_at(2) = LineTree
    /\ \E i \in CategoryCalls(0) : calls[i].h = "visit_unrecognized_hash_line"
    /\ CategoryCalls(1) = {}
    /\ \E i \in CategoryCalls(2) : calls[i].h = "visit_tree"

\* the handlers that are given the text of the line
TextHandlers == {"visit_tree", "visit_unrecognized_hash_line", "visit_unrecognized_line", "visit_stride_line"}

\* C5: the lineno of every call is the 0-based index in the stream of the line
\* it was made for (empty and comment lines count); the whitespace handler is
\* given that line as it is, a category handler its trimmed content, the header
\* handler the two numbers of that line; and the log is in file order.
C5_LineNumbersAndOrder ==
    /\ \A i \in 1..Len(calls) :
         LET c == calls[i]
         IN /\ c.lineno \in LineNumbers
            /\ c.lineno <= lineno
            /\ c.h = WsHandler => c.line = line_at(c.lineno)
            /\ c.h \in TextHandlers => c.line = ContentAt(c.lineno)
            /\ c.h # WsHandler => c.h = HandlerOf(Category(ContentAt(c.lineno)))
            /\ c.h = "visit_header" =>
                 /\ ContentAt(c.lineno) = LineHeader
                 /\ c.num_trees = Small(2, UsizeLimbs)
                 /\ c.num_leaves = Small(3, UsizeLimbs)
    /\ \A i, j \in 1..Len(calls) : i < j => calls[i].lineno <= calls[j].lineno

\* `#p 2 3`, a comment, `(1);`: the header record is (0,2,3) and the tree
\* record is at line 2, the comment line counted
C5_Witness ==
    /\ Len(stream) = 3
    /\ line_at(0) = LineHeader /\ line_at(1) = LineComment /\ line_at(2) = LineTree
    /\ result = Res("Ok")
    /\ Len(calls) = 2
    /\ calls[1].h = "visit_header" /\ calls[1].lineno = 0
    /\ calls[1].num_trees = Small(2, UsizeLimbs) /\ calls[1].num_leaves = Small(3, UsizeLimbs)
    /\ calls[2].h = "visit_tree" /\ calls[2].lineno = 2 /\ calls[2].line = LineTree

\* C6: for every line the loop has entered, the whitespace handler was called
\* (once, with the raw line) if and only if the line has leading or trailing
\* whitespace, a whitespace-only line included; the call comes before the
\* category-handler call of the same line; and a padded line the loop went
\* past whose category has a handler got both calls.
C6_ExtraWhitespace ==
    \A ln \in LineNumbers :
        /\ Entered(ln) => (Cardinality(WsCalls(ln)) = 1 <=> IsPadded(line_at(ln)))
        /\ ~Entered(ln) => WsCalls(ln) = {}
        /\ Cardinality(WsCalls(ln)) <= 1
        /\ \A i \in WsCalls(ln) : calls[i].line = line_at(ln)
        /\ \A i \in WsCalls(ln) : \A j \in CategoryCalls(ln) : i < j
        /\ (Passed(ln) /\ IsPadded(line_at(ln)) /\ Category(ContentAt(ln)) \in {"hash", "tree", "other"})
             => Cardinality(WsCalls(ln)) = 1 /\ Cardinality(CategoryCalls(ln)) = 1

\* a whitespace-only line and a padded `#` line were each reported, the latter
\* before its category handler; the unpadded tree line was not reported
C6_Witness ==
    /\ lineno = 3
    /\ line_at(0) = LineBlank /\ line_at(1) = LineHashOther /\ line_at(2) = LineTree
    /\ Len(calls) = 4
    /\ calls[1].h = WsHandler /\ calls[1].line = LineBlank
    /\ calls[2].h = WsHandler /\ calls[2].line = LineHashOther
    /\ calls[3].h = "visit_unrecognized_hash_line" /\ calls[3].lineno = 1
    /\ calls[4].h = "visit_tree"

----------------------------------------------------------------------------
\* Reference notions the Newick properties are stated with

\* the first parse succeeded
ParsedOk == phase # "start" /\ parsed.status = "ok"

\* the parsed tree has been written
HasWritten == phase \in {"written", "reparsed", "rewritten"}

\* the maximal runs of digits of a text, as pairs of 1-based first and last position
DigitRuns(t) ==
    {<<i, j>> \in (1..Len(t)) \X (1..Len(t)) :
        /\ i <= j
        /\ \A k \in i..j : t[k] \in Digits
        /\ (i = 1 \/ t[i - 1] \notin Digits)
        /\ (j = Len(t) \/ t[j + 1] \notin Digits)}

MaxU32Numeral == <<"4", "2", "9", "4", "9", "6", "7", "2", "9", "5">>

\* numerals of equal length: a <= b
RECURSIVE NumeralLeq(_, _)
NumeralLeq(a, b) ==
    IF a = <<>> THEN TRUE
    ELSE IF a[1] # b[1] THEN DigitVal(a[1]) < DigitVal(b[1])
    ELSE NumeralLeq(Tail(a), Tail(b))

\* a numeral as the writer prints a u32: no leading zero, at most 2^32 - 1
IsCanonicalU32(ds) ==
    /\ (ds[1] = "0" => Len(ds) = 1)
    /\ \/ Len(ds) < Len(MaxU32Numeral)
       \/ Len(ds) = Len(MaxU32Numeral) /\ NumeralLeq(ds, MaxU32Numeral)

HasCanonicalLeaves(t) == \A r \in DigitRuns(t) : IsCanonicalU32(SubSeq(t, r[1], r[2]))

\* the number of inner nodes of a text of the grammar
InnerCount(t) == Cardinality({i \in 1..Len(t) : t[i] = "("})

\* rid + k does not leave the 32 bits
FitsU32(rid, k) == MulAdd(rid, 1, k).carry = 0

\* no NodeIdx::incremented of the parse overflows: the parser increments the
\* id of every inner node, so it computes ids up to root_id + InnerCount
NoIncrementOverflow == FitsU32(root_id, InnerCount(text))

\* the ids given to the inner nodes, root_id .. root_id + InnerCount - 1, fit
NoIdWrap == InnerCount(text) = 0 \/ FitsU32(root_id, InnerCount(text) - 1)

\* the NodeIdx of the inner nodes of an indexed tree
RECURSIVE InnerIds(_)
InnerIds(node) ==
    IF node.kind = "Leaf" THEN {}
    ELSE {node.idx} \cup InnerIds(node.left) \cup InnerIds(node.right)

\* at every inner node: its id is below every inner id of its left subtree, and
\* every inner id of its left subtree is below every inner id of its right subtree
RECURSIVE IsPreOrder(_)
IsPreOrder(node) ==
    IF node.kind = "Leaf" THEN TRUE
    ELSE /\ \A x \in InnerIds(node.left) : Less(node.idx, x)
         /\ \A x \in InnerIds(node.left) : \A y \in InnerIds(node.right) : Less(x, y)
         /\ IsPreOrder(node.left)
         /\ IsPreOrder(node.right)

----------------------------------------------------------------------------
\* C7 (as claimed): for every text of `Tree ';'`, parsing it with the plain
\* builder succeeds and writing the tree gives back exactly the text.
C7_RoundTripAnyText ==
    (builder = "plain" /\ phase # "start") =>
        /\ parsed.status = "ok"
        /\ HasWritten => written = text

\* C7 (amended): the same for every text whose leaf numerals are written as the
\* writer prints a u32 (no leading zero, at most 2^32 - 1), parsed from a root
\* id that no increment of the parse overflows in a build with overflow checks.
C7_RoundTripCanonicalText ==
    (builder = "plain" /\ phase # "start" /\ HasCanonicalLeaves(text)
        /\ (overflow_checks => NoIncrementOverflow)) =>
        /\ parsed.status = "ok"
        /\ HasWritten => written = text

\* a text with an inner node, the leaves 0 and 4294967295, written back
C7_Witness ==
    /\ builder = "plain"
    /\ phase = "written"
    /\ text = <<"(", "0", ",">> \o MaxU32Numeral \o <<")", ";">>
    /\ written = text

\* C8: for a tree parsed with either builder from any root id, the text the
\* writer gives parses again, with the same builder and root id, to an equal
\* tree, and writing that tree gives the same text byte for byte.
C8_WriteParseIsIdentity ==
    ParsedOk =>
        /\ phase \in {"reparsed", "rewritten"} => (reparsed.status = "ok" /\ reparsed.node = parsed.node)
        /\ phase = "rewritten" => rewritten = written

\* an indexed tree from a text with a leading-zero leaf, so that the written
\* text differs from the input, read back and written again
C8_Witness ==
    /\ builder = "indexed"
    /\ phase = "rewritten"
    /\ text = <<"(", "(", "0", "7", ",", "0", ")", ",", "0", "7", ")", ";">>
    /\ written # text
    /\ reparsed.node = parsed.node
    /\ rewritten = written

\* C9: in an indexed tree parsed without the ids wrapping around 2^32, every
\* inner node's NodeIdx is below every inner NodeIdx of its left subtree, and
\* every inner NodeIdx of its left subtree is below every inner NodeIdx of its
\* right subtree.
C9_PreOrderIds ==
    (ParsedOk /\ builder = "indexed" /\ NoIdWrap) => IsPreOrder(parsed.node)

\* a tree whose root has inner nodes in both subtrees
C9_Witness ==
    /\ ParsedOk
    /\ builder = "indexed"
    /\ root_id = Small(6, U32Limbs)
    /\ parsed.node.kind = "Node"
    /\ parsed.node.left.kind = "Node"
    /\ parsed.node.right.kind = "Node"
    /\ parsed.node.idx = Small(6, U32Limbs)
    /\ parsed.node.left.idx = Small(7, U32Limbs)
    /\ parsed.node.right.idx = Small(8, U32Limbs)

\* C10 (as claimed): in an indexed tree parsed with root id R, node_idx of the
\* root is R and node_idx of the root's left child is R + 1.
C10_RootAndLeftChildIds ==
    (ParsedOk /\ builder = "indexed") =>
        /\ node_idx(parsed.node) = root_id
        /\ children(parsed.node).some =>
             (FitsU32(root_id, 1) /\ node_idx(children(parsed.node).left) = MulAdd(root_id, 1, 1).v)

\* C10 (amended): node_idx of an inner root is R, and node_idx of an inner
\* left child of the root is R + 1 when R + 1 fits 32 bits; node_idx of a leaf,
\* root or child, is its label.
C10_InnerRootAndLeftChildIds ==
    (ParsedOk /\ builder = "indexed") =>
        LET root == parsed.node
        IN /\ root.kind = "Node" => node_idx(root) = root_id
           /\ root.kind = "Leaf" => node_idx(root) = root.label
           /\ (root.kind = "Node" /\ root.left.kind = "Node" /\ FitsU32(root_id, 1))
                => node_idx(root.left) = MulAdd(root_id, 1, 1).v
           /\ (root.kind = "Node" /\ root.left.kind = "Leaf")
                => node_idx(root.left) = root.left.label

\* root 6 with an inner left child 7 whose own left child is the leaf 0
C10_Witness ==
    /\ ParsedOk
    /\ builder = "indexed"
    /\ root_id = Small(6, U32Limbs)
    /\ parsed.node.kind = "Node"
    /\ parsed.node.left.kind = "Node"
    /\ node_idx(parsed.node) = Small(6, U32Limbs)
    /\ node_idx(parsed.node.left) = Small(7, U32Limbs)
    /\ node_idx(parsed.node.left.left) = Small(0, U32Limbs)

----------------------------------------------------------------------------
\* parse_newick_from_str on arbitrary text: every short string over the
\* characters of the format, and every string one edit away from a text of
\* the grammar.

ParseAlphabet == {"(", ")", ",", ";", "1", "2", " "}

ShortTexts == UNION {[1..n -> ParseAlphabet] : n \in 0..MaxTextLen}

ParseNumerals == {<<"1">>, <<"2", "0">>}

\* the strings of `Tree` with k leaves taken from nums
RECURSIVE TreeTextsOver(_, _)
TreeTextsOver(k, nums) ==
    IF k = 1 THEN nums
    ELSE UNION {{<<"(">> \o l \o <<",">> \o r \o <<")">> :
                    l \in TreeTextsOver(i, nums), r \in TreeTextsOver(k - i, nums)} : i \in 1..(k - 1)}

\* t itself and t with one character removed, replaced or inserted
Edits(t) ==
    {t}
    \cup {SubSeq(t, 1, i - 1) \o SubSeq(t, i + 1, Len(t)) : i \in 1..Len(t)}
    \cup {SubSeq(t, 1, i - 1) \o <<c>> \o SubSeq(t, i + 1, Len(t)) : i \in 1..Len(t), c \in ParseAlphabet}
    \cup {SubSeq(t, 1, i - 1) \o <<c>> \o SubSeq(t, i, Len(t)) : i \in 1..(Len(t) + 1), c \in ParseAlphabet}

EditedTexts ==
    UNION {Edits(t \o <<";">>) : t \in UNION {TreeTextsOver(k, ParseNumerals) : k \in 1..MaxParseLeaves}}

ParseTexts == ShortTexts \cup EditedTexts

InitParse ==
    /\ text \in ParseTexts
    /\ root_id = Small(6, U32Limbs)
    /\ builder \in Builders
    /\ overflow_checks \in BOOLEAN
    /\ phase = "start"
    /\ parsed = NoParse
    /\ written = <<>>
    /\ reparsed = NoParse
    /\ rewritten = <<>>
    /\ ReaderIdle
    /\ InstanceIdle
    /\ LexerIdle
    /\ DfsIdle

NextParse == Parse

SpecParse == InitParse /\ [][NextParse]_vars

----------------------------------------------------------------------------
\* Reference notions for the grammar, independent of the parser

IsNumeral(t) == t # <<>> /\ \A i \in 1..Len(t) : t[i] \in Digits

\* t is a string of `Tree := '(' Tree ',' Tree ')' | Number`
RECURSIVE IsTreeText(_)
IsTreeText(t) ==
    \/ IsNumeral(t)
    \/ /\ Len(t) >= 5
       /\ t[1] = "("
       /\ t[Len(t)] = ")"
       /\ \E i \in 3..(Len(t) - 2) :
            /\ t[i] = ","
            /\ IsTreeText(SubSeq(t, 2, i - 1))
            /\ IsTreeText(SubSeq(t, i + 1, Len(t) - 1))

\* t is a string of `TopLevel := Tree ';'`
IsTopLevelText(t) == Len(t) >= 2 /\ t[Len(t)] = ";" /\ IsTreeText(SubSeq(t, 1, Len(t) - 1))

RECURSIVE NumeralInt(_)
NumeralInt(t) == IF t = <<>> THEN 0 ELSE 10 * NumeralInt(SubSeq(t, 1, Len(t) - 1)) + DigitVal(t[Len(t)])

\* the derivation of a string of `Tree`: its shape and leaf labels
RECURSIVE Derivation(_)
Derivation(t) ==
    IF IsNumeral(t)
    THEN [kind |-> "Leaf", label |-> <<NumeralInt(t) % LimbBase, NumeralInt(t) \div LimbBase>>]
    ELSE LET i == CHOOSE j \in 3..(Len(t) - 2) :
                      /\ t[j] = ","
                      /\ IsTreeText(SubSeq(t, 2, j - 1))
                      /\ IsTreeText(SubSeq(t, j + 1, Len(t) - 1))
         IN [kind |-> "Node", left |-> Derivation(SubSeq(t, 2, i - 1)),
             right |-> Derivation(SubSeq(t, i + 1, Len(t) - 1))]

\* a tree of either builder without its NodeIdx
RECURSIVE Shape(_)
Shape(node) ==
    IF node.kind = "Leaf" THEN [kind |-> "Leaf", label |-> node.label]
    ELSE [kind |-> "Node", left |-> Shape(node.left), right |-> Shape(node.right)]

\* C11 (as claimed): parse_newick_from_str returns Ok exactly for the texts
\* that are, as a whole, a string of `Tree ';'`, and the tree then has the
\* shape and the leaf labels of the text's derivation.
C11_OkIffGrammarText ==
    phase = "parsed" /\ parsed.status # "panic" =>
        /\ parsed.status = "ok" <=> IsTopLevelText(text)
        /\ parsed.status = "ok" => Shape(parsed.node) = Derivation(SubSeq(text, 1, Len(text) - 1))

\* Reference notions for the parser's errors: the tokens of a text, and a
\* table-driven recogniser that keeps the symbols still expected on a stack

Symbols == [c \in {"(", ")", ",", ";"} |->
              IF c = "(" THEN "ParOpen" ELSE IF c = ")" THEN "ParClose"
              ELSE IF c = "," THEN "Comma" ELSE "Semicolon"]

\* the 1-based positions where a token of t starts
TokenStarts(t) == {i \in 1..Len(t) : t[i] \notin Digits \/ i = 1 \/ t[i - 1] \notin Digits}

\* the token that starts at position i, with its 0-based offset
TokenAt(t, i) ==
    IF t[i] \in Digits
    THEN LET j == CHOOSE j \in i..Len(t) :
                      /\ \A k \in i..j : t[k] \in Digits
                      /\ (j = Len(t) \/ t[j + 1] \notin Digits)
             v == NumeralInt(SubSeq(t, i, j))
         IN [offset |-> i - 1, token_type |-> "Number", number |-> <<v % LimbBase, v \div LimbBase>>]
    ELSE IF t[i] \in DOMAIN Symbols
    THEN [offset |-> i - 1, token_type |-> Symbols[t[i]], number |-> <<0, 0>>]
    ELSE [offset |-> i - 1, token_type |-> "Unexpected", number |-> <<0, 0>>]

\* the tokens of t in order
RECURSIVE TokensFrom(_, _)
TokensFrom(t, i) ==
    IF i > Len(t) THEN <<>>
    ELSE IF i \in TokenStarts(t) THEN <<TokenAt(t, i)>> \o TokensFrom(t, i + 1)
    ELSE TokensFrom(t, i + 1)

ErrorWhenExpected ==
    [x \in {"Tree", "Comma", "ParClose", "Semicolon"} |->
        IF x = "Tree" THEN "ExpectedNodeBegin" ELSE IF x = "Comma" THEN "ExpectedComma"
        ELSE IF x = "ParClose" THEN "ExpectedClosing" ELSE "ExpectedEnd"]

\* what the grammar says of the tokens toks of text t when the symbols of
\* stack are expected: "Accepted", or the first violation with its error
RECURSIVE Recognise(_, _, _)
Recognise(t, stk, toks) ==
    IF stk = <<>> THEN [kind |-> "Accepted", token |-> NoToken, character |-> "", offset |-> NoneVal]
    ELSE IF toks = <<>> THEN [kind |-> "UnexpectedEnd", token |-> NoToken, character |-> "", offset |-> NoneVal]
    ELSE LET tok == Head(toks)
             top == Head(stk)
         IN IF tok.token_type = "Unexpected"
            THEN [kind |-> "Lexer", token |-> NoToken, character |-> t[tok.offset + 1], offset |-> tok.offset]
            ELSE IF top = "Tree" /\ tok.token_type = "ParOpen"
            THEN Recognise(t, <<"Tree", "Comma", "Tree", "ParClose">> \o Tail(stk), Tail(toks))
            ELSE IF top = "Tree" /\ tok.token_type = "Number"
            THEN Recognise(t, Tail(stk), Tail(toks))
            ELSE IF top = tok.token_type
            THEN Recognise(t, Tail(stk), Tail(toks))
            ELSE [kind |-> ErrorWhenExpected[top], token |-> tok, character |-> "", offset |-> NoneVal]

\* the first violation of `Tree ';'` in text
FirstViolation == Recognise(text, <<"Tree", "Semicolon">>, TokensFrom(text, 1))

\* C12 (as claimed): on every text that is not a string of `Tree ';'` the
\* parser fails, at the first token that violates the grammar, with the error
\* of what was expected there: UnexpectedEnd, ExpectedNodeBegin, ExpectedComma,
\* ExpectedClosing or ExpectedEnd with the offending token and its offset, or
\* Lexer with the lexer's character and offset.
C12_ErrorOfFirstViolation ==
    (phase = "parsed" /\ ~IsTopLevelText(text)) =>
        /\ parsed.status = "err"
        /\ parsed.err = FirstViolation

----------------------------------------------------------------------------
\* Instance::try_read and its Visitor (src/pace/simplified.rs)

\* the longest stream Instance::try_read is given
MaxInstanceLines == 3

\* what a handler of the Visitor leaves behind: the visitor, the instance, the
\* Action, the parse it made (none or one), and whether it panicked
Handled(v, inst, ret, parses, panic) ==
    [visitor |-> v, instance |-> inst, ret |-> ret, parses |-> parses, panic |-> panic]

\* visit_header without the test for a leaf count of zero
visit_header_any_count(v, inst, num_leaves) ==
    IF v.num_leaves.some
    THEN Handled([v EXCEPT !.error = [NoError EXCEPT !.kind = "MultipleHeaders"]], inst, Terminate, <<>>, FALSE)
    ELSE Handled([v EXCEPT !.num_leaves = [some |-> TRUE, v |-> num_leaves]],
                 [inst EXCEPT !.num_leaves = num_leaves], Continue, <<>>, FALSE)

\* Visitor::visit_header
visit_header(v, inst, num_leaves) ==
    IF v.num_leaves.some
    THEN Handled([v EXCEPT !.error = [NoError EXCEPT !.kind = "MultipleHeaders"]], inst, Terminate, <<>>, FALSE)
    ELSE IF IsZero(num_leaves)
    THEN Handled([v EXCEPT !.error = [NoError EXCEPT !.kind = "NoLeaves"]], inst, Terminate, <<>>, FALSE)
    ELSE Handled([v EXCEPT !.num_leaves = [some |-> TRUE, v |-> num_leaves]],
                 [inst EXCEPT !.num_leaves = num_leaves], Continue, <<>>, FALSE)

\* `(self.instance.trees.len() + 1) * (num_leaves - 1) + 2` in usize, and
\* `root_id as u32`
tree_root_id(len, num_leaves) ==
    LET wide == MulAdd(Decrement(num_leaves).v, len + 1, 2)
    IN [v |-> as_u32(wide.v), panic |-> overflow_checks /\ wide.carry # 0]

\* one call of parse_newick_from_str, as visit_tree makes it
ParseCall(ln, line, len, num_leaves, rid, res) ==
    [lineno |-> ln, line |-> line, trees_before |-> len, num_leaves |-> num_leaves,
     root_id |-> rid, result |-> res]

\* visit_tree that skips a tree line the parser rejects
visit_tree_parsed_skipping(v, inst, made) ==
    IF made.result.status = "panic" THEN Handled(v, inst, Continue, <<made>>, TRUE)
    ELSE IF made.result.status = "err" THEN Handled(v, inst, Continue, <<made>>, FALSE)
    ELSE Handled(v, [inst EXCEPT !.trees = Append(@, made.result.node)], Continue, <<made>>, FALSE)

\* visit_tree after the parse: the error is kept, or the tree is pushed
visit_tree_parsed(v, inst, made) ==
    IF made.result.status = "panic" THEN Handled(v, inst, Continue, <<made>>, TRUE)
    ELSE IF made.result.status = "err"
    THEN Handled([v EXCEPT !.error = [NoError EXCEPT !.kind = "NewickError", !.err = made.result.err]],
                 inst, Terminate, <<made>>, FALSE)
    ELSE Handled(v, [inst EXCEPT !.trees = Append(@, made.result.node)], Continue, <<made>>, FALSE)

\* visit_tree once num_leaves is known
visit_tree_parse(v, inst, b, ln, line, num_leaves, rid) ==
    IF rid.panic THEN Handled(v, inst, Continue, <<>>, TRUE)
    ELSE visit_tree_parsed(v, inst, ParseCall(ln, line, Len(inst.trees), num_leaves, rid.v,
                                              parse_newick_from_str(b, line, rid.v)))

\* visit_tree that takes a missing header for a header with one leaf
visit_tree_without_header(v, inst, b, ln, line) ==
    IF ~v.num_leaves.some
    THEN visit_tree_parse(v, inst, b, ln, line, Small(1, UsizeLimbs),
                          tree_root_id(Len(inst.trees), Small(1, UsizeLimbs)))
    ELSE visit_tree_parse(v, inst, b, ln, line, v.num_leaves.v,
                          tree_root_id(Len(inst.trees), v.num_leaves.v))

\* Visitor::visit_tree
visit_tree(v, inst, b, ln, line) ==
    IF ~v.num_leaves.some
    THEN Handled([v EXCEPT !.error = [NoError EXCEPT !.kind = "NoHeader"]], inst, Terminate, <<>>, FALSE)
    ELSE visit_tree_parse(v, inst, b, ln, line, v.num_leaves.v,
                          tree_root_id(Len(inst.trees), v.num_leaves.v))

\* visit_param_tree_decomposition that keeps the payload it already has
visit_param_tree_decomposition_keeping_first(v, inst, td) ==
    IF inst.tree_decomposition.present THEN Handled(v, inst, Continue, <<>>, FALSE)
    ELSE Handled(v, [inst EXCEPT !.tree_decomposition = [td EXCEPT !.present = TRUE]], Continue, <<>>, FALSE)

\* Visitor::visit_param_tree_decomposition
visit_param_tree_decomposition(v, inst, td) ==
    Handled(v, [inst EXCEPT !.tree_decomposition = [td EXCEPT !.present = TRUE]], Continue, <<>>, FALSE)

\* the Visitor given the header's number of trees as the number of leaves
visitor_handle_trees_for_leaves(v, inst, b, c) ==
    IF c.h = "visit_header" THEN visit_header(v, inst, c.num_trees)
    ELSE IF c.h = "visit_tree" THEN visit_tree(v, inst, b, c.lineno, c.line)
    ELSE IF c.h = "visit_param_tree_decomposition" THEN visit_param_tree_decomposition(v, inst, c.td)
    ELSE Handled(v, inst, Continue, <<>>, FALSE)

\* the handler of the Visitor that the call c reaches; the handlers it does
\* not implement are the defaults of InstanceVisitor, which return Continue
visitor_handle(v, inst, b, c) ==
    IF c.h = "visit_header" THEN visit_header(v, inst, c.num_leaves)
    ELSE IF c.h = "visit_tree" THEN visit_tree(v, inst, b, c.lineno, c.line)
    ELSE IF c.h = "visit_param_tree_decomposition" THEN visit_param_tree_decomposition(v, inst, c.td)
    ELSE Handled(v, inst, Continue, <<>>, FALSE)

\* the category call of one loop iteration, NoCall when there is none
category_call(cs) ==
    IF cs # <<>> /\ cs[Len(cs)].h # "visit_line_with_extra_whitespace" THEN cs[Len(cs)] ELSE NoCall

InstanceStreams ==
    UNION {[1..n -> (Len(LinePool) + Len(ParamPool) + 1)..(Len(LinePool) + Len(ParamPool) + Len(InstancePool))] :
              n \in 0..MaxInstanceLines}

\* try_read up to `instance_reader.read(reader)`
InitInstance ==
    /\ stream \in InstanceStreams
    /\ visit_td = TRUE
    /\ lineno = 0
    /\ header_line = NoneVal
    /\ calls = <<>>
    /\ result = Running
    /\ builder \in Builders
    /\ overflow_checks \in BOOLEAN
    /\ text = <<>>
    /\ root_id = Small(0, U32Limbs)
    /\ phase = "idle"
    /\ parsed = NoParse
    /\ written = <<>>
    /\ reparsed = NoParse
    /\ rewritten = <<>>
    /\ instance = instance_new
    /\ visitor = visitor_new
    /\ parse_calls = <<>>
    /\ outcome = Pending
    /\ LexerIdle
    /\ DfsIdle

\* one loop iteration it of read together with what its handler h left behind
try_read_step(it, h) ==
    [calls |-> it.calls,
     result |-> IF h.panic THEN Res("Panic") ELSE it.result,
     header_line |-> it.header_line,
     visitor |-> h.visitor, instance |-> h.instance, parses |-> h.parses]

\* the loop iteration with the Action the handler returned
try_read_handled(line, ln, hl, flag, h) ==
    try_read_step(read_iteration(line, ln, hl, flag, Continue, h.ret), h)

\* the loop iteration of a reader that does not remember the header it saw
try_read_iteration_forgetting_header(line, ln, hl, flag, v, inst, b) ==
    try_read_handled(line, ln, NoneVal, flag,
        visitor_handle(v, inst, b, category_call(read_iteration(line, ln, NoneVal, flag, Continue, Continue).calls)))

\* one loop iteration of read with the Visitor v as visitor: the category
\* handler the line reaches is run on v, and its Action decides how the
\* iteration ends
try_read_iteration(line, ln, hl, flag, v, inst, b) ==
    try_read_handled(line, ln, hl, flag,
        visitor_handle(v, inst, b, category_call(read_iteration(line, ln, hl, flag, Continue, Continue).calls)))

\* one iteration of the loop of read with the Visitor of try_read as visitor
try_read_line ==
    /\ outcome = Pending
    /\ result = Running
    /\ lineno < Len(stream)
    /\ \E st \in {try_read_iteration(line_at(lineno), lineno, header_line, visit_td, visitor, instance, builder)} :
          /\ calls' = calls \o st.calls
          /\ result' = st.result
          /\ header_line' = st.header_line
          /\ lineno' = IF st.result = Running THEN lineno + 1 ELSE lineno
          /\ visitor' = st.visitor
          /\ instance' = st.instance
          /\ parse_calls' = parse_calls \o st.parses
    /\ UNCHANGED <<stream, visit_td, outcome>>
    /\ UNCHANGED newickVars
    /\ UNCHANGED lexerVars
    /\ UNCHANGED dfsVars

\* the lines are exhausted: read returns Ok(())
try_read_end ==
    /\ outcome = Pending
    /\ result = Running
    /\ lineno = Len(stream)
    /\ result' = Res("Ok")
    /\ UNCHANGED <<stream, visit_td, lineno, header_line, calls>>
    /\ UNCHANGED newickVars
    /\ UNCHANGED lexerVars
    /\ UNCHANGED dfsVars
    /\ UNCHANGED instanceVars

\* try_read after read returned: `?`, then visitor.error, then Ok(instance)
try_read_return ==
    /\ outcome = Pending
    /\ result # Running
    /\ outcome' =
         IF result.kind = "Panic" THEN Outcome("Panic", NoError, instance_new)
         ELSE IF result.kind # "Ok"
         THEN Outcome("Err", [NoError EXCEPT !.kind = "ReaderError", !.reader = result], instance_new)
         ELSE IF visitor.error # NoError THEN Outcome("Err", visitor.error, instance_new)
         ELSE Outcome("Ok", NoError, instance)
    /\ UNCHANGED <<instance, visitor, parse_calls>>
    /\ UNCHANGED readerVars
    /\ UNCHANGED newickVars
    /\ UNCHANGED lexerVars
    /\ UNCHANGED dfsVars

NextInstance == try_read_line \/ try_read_end \/ try_read_return

SpecInstance == InitInstance /\ [][NextInstance]_vars

----------------------------------------------------------------------------
\* Reference notions the properties of Instance::try_read are stated with

\* try_read has returned
Returned == outcome.kind \notin {"Pending", "Idle"}

\* try_read returned the error of this kind
ReturnedError(kind) == outcome.kind = "Err" /\ outcome.error.kind = kind

\* line ln is a tree line: not a `#` line, and ending in `;`
IsTreeLine(ln) == Category(ContentAt(ln)) = "tree"

\* no `#p` line comes before line ln
NoHeaderBefore(ln) == \A m \in HeaderLines : m >= ln

\* the calls of parse_newick_from_str made for line ln
ParsesOf(ln) == {k \in 1..Len(parse_calls) : parse_calls[k].lineno = ln}

\* the header `#p <trees> <leaves>` with a leaf count of value zero
DeclaresNoLeaves(c) ==
    LET f == split(c, " ")
    IN /\ Len(f) >= 3
       /\ f[1] = <<"#", "p">>
       /\ IsNumeral(f[2]) /\ Len(f[2]) < 20
       /\ f[3] # <<>> /\ \A i \in 1..Len(f[3]) : f[3][i] = "0"

\* C13: when the loop comes to a tree line with no `#p` line before it,
\* try_read returns Err(NoHeader): reading stops on that line, the parser is
\* not called for it and no tree is stored.
C13_TreeBeforeHeader ==
    \A ln \in LineNumbers :
        (Entered(ln) /\ IsTreeLine(ln) /\ NoHeaderBefore(ln)) =>
            /\ lineno = ln
            /\ result = Res("Ok")
            /\ ParsesOf(ln) = {}
            /\ instance.trees = <<>>
            /\ Returned => ReturnedError("NoHeader")

\* a tree line, then the header that would have made it valid
C13_Witness ==
    /\ Len(stream) = 2
    /\ line_at(0) = LineTree3
    /\ line_at(1) = LineHeader
    /\ ReturnedError("NoHeader")
    /\ parse_calls = <<>>

\* C14: when the loop comes to a header that declares zero leaves, try_read
\* returns Err(NoLeaves): reading stops on the header line, whatever lines
\* follow it, and no tree is parsed or stored.
C14_HeaderWithoutLeaves ==
    \A ln \in LineNumbers :
        (Entered(ln) /\ DeclaresNoLeaves(ContentAt(ln)) /\ NoHeaderBefore(ln)) =>
            /\ lineno = ln
            /\ result = Res("Ok")
            /\ parse_calls = <<>>
            /\ instance.trees = <<>>
            /\ IsZero(instance.num_leaves)
            /\ Returned => ReturnedError("NoLeaves")

\* a header without leaves, followed by a tree line and a malformed header
C14_Witness ==
    /\ Len(stream) = 3
    /\ line_at(0) = LineHeaderNoLeaves
    /\ line_at(1) = LineTree3
    /\ line_at(2) = LineHeaderBad
    /\ ReturnedError("NoLeaves")

\* a value with zero limbs added on top, n limbs in all
ZeroExtended(x, n) == x \o [k \in 1..(n - Len(x)) |-> 0]

\* (i + 1) * (L - 1) + 2 as a number, for L >= 1: one limb more than a usize
\* holds it for every i the model reaches
BlockStart(i, L) == MulAdd(ZeroExtended(Decrement(L).v, UsizeLimbs + 1), i + 1, 2).v

\* (i + 2) * (L - 1) + 1 as a number, for L >= 1
BlockEnd(i, L) == MulAdd(ZeroExtended(Decrement(L).v, UsizeLimbs + 1), i + 2, 1).v

\* C15 (as claimed): every root NodeIdx handed to the parser for a tree line
\* equals (i + 1) * (L - 1) + 2, with L the leaf count of the header and i the
\* number of trees parsed before the line; the 32-bit NodeIdx holds that value.
C15_RootIdFormula ==
    \A k \in 1..Len(parse_calls) :
        ZeroExtended(parse_calls[k].root_id, UsizeLimbs + 1)
            = BlockStart(parse_calls[k].trees_before, parse_calls[k].num_leaves)

\* the inner-node ids of the i-th tree (0-based) of a returned Instance
InnerIdsOf(i) == {ZeroExtended(x, UsizeLimbs + 1) : x \in InnerIds(outcome.instance.trees[i + 1])}

\* the positions (0-based) of the trees of a returned Instance
TreePositions == 0..(Len(outcome.instance.trees) - 1)

\* C16 (as claimed): in every Instance try_read returns with the indexed
\* builder, the inner-node ids of two distinct trees are disjoint, the ids of
\* the i-th tree lie in [(i+1)*(L-1)+2, (i+2)*(L-1)+1], and no inner node has
\* id 0 or 1.
C16_DisjointIdBlocks ==
    (outcome.kind = "Ok" /\ builder = "indexed") =>
        /\ \A i, j \in TreePositions : i # j => InnerIdsOf(i) \cap InnerIdsOf(j) = {}
        /\ \A i \in TreePositions : \A x \in InnerIdsOf(i) :
              /\ ~Less(x, BlockStart(i, outcome.instance.num_leaves))
              /\ ~Less(BlockEnd(i, outcome.instance.num_leaves), x)
              /\ x # Small(0, UsizeLimbs + 1)
              /\ x # Small(1, UsizeLimbs + 1)

\* the parser returned an error for its k-th call
ParseFailed(k) == parse_calls[k].result.status = "err"

\* C17: when the parser returns an error e for a tree line, that call is the
\* last one, reading stops on that line and no handler is called for a later
\* line; try_read returns Err(NewickError(e)) with e unchanged, and so returns
\* no Instance, although trees may have been stored before.
C17_ParseFailureAborts ==
    \A k \in 1..Len(parse_calls) :
        ParseFailed(k) =>
            /\ k = Len(parse_calls)
            /\ lineno = parse_calls[k].lineno
            /\ result = Res("Ok")
            /\ \A c \in 1..Len(calls) : calls[c].lineno <= parse_calls[k].lineno
            /\ Len(instance.trees) = k - 1
            /\ Returned =>
                  /\ ReturnedError("NewickError")
                  /\ outcome.error.err = parse_calls[k].result.err
                  /\ outcome.instance = instance_new

\* a header, a tree that parses, and a tree line that lacks its comma
C17_Witness ==
    /\ Len(stream) = 3
    /\ line_at(0) = LineHeader
    /\ line_at(1) = LineTree3
    /\ line_at(2) = LineTree
    /\ Len(parse_calls) = 2
    /\ ParseFailed(2)
    /\ parse_calls[2].result.err.kind = "ExpectedComma"
    /\ Len(instance.trees) = 1
    /\ ReturnedError("NewickError")

----------------------------------------------------------------------------
\* InstanceReader::read on streams of `#x` and `#s` lines

MaxParamLines == 2

ParamStreams ==
    UNION {[1..n -> (Len(LinePool) + 1)..(Len(LinePool) + Len(ParamPool))] : n \in 0..MaxParamLines}

InitParam ==
    /\ stream \in ParamStreams
    /\ visit_td \in BOOLEAN
    /\ lineno = 0
    /\ header_line = NoneVal
    /\ calls = <<>>
    /\ result = Running
    /\ NewickIdle
    /\ InstanceIdle
    /\ LexerIdle
    /\ DfsIdle

SpecParam == InitParam /\ [][Next]_vars

\* Reference notions the properties of `#x` and `#s` lines are stated with

\* the positions of the spaces of c that end a key: the spaces after the
\* marker and the character that follows it
KeyEnds(c) == {p \in 4..Len(c) : c[p] = " "}

\* c has a key and a value after its two-character marker
HasKeyValue(c) == KeyEnds(c) # {}

KeyEnd(c) == CHOOSE p \in KeyEnds(c) : \A q \in KeyEnds(c) : p <= q

KeyOf(c) == trim(SubSeq(c, 3, KeyEnd(c) - 1))

ValueOf(c) == trim(SubSeq(c, KeyEnd(c) + 1, Len(c)))

TreeDecompKey == <<"t", "r", "e", "e", "d", "e", "c", "o", "m", "p">>

\* a line `#x treedecomp <value>`
IsTreeDecompLine(c) ==
    /\ starts_with(c, <<"#", "x", " ">> \o TreeDecompKey \o <<" ">>)
    /\ Len(c) > Len(TreeDecompKey) + 4

\* C18: visit_param_tree_decomposition is called only when the visitor's
\* VISIT_PARAM_TREE_DECOMPOSITION is true.  When it is false, a line
\* `#x treedecomp <value>` whose category test is reached brings no category
\* handler call and no InvalidJSON whatever the value is, and the loop goes
\* on to the next line.
C18_TreeDecompOnlyWhenOptedIn ==
    /\ \A i \in 1..Len(calls) : calls[i].h = "visit_param_tree_decomposition" => visit_td
    /\ ~visit_td =>
         \A ln \in LineNumbers :
             (Classified(ln) /\ IsTreeDecompLine(ContentAt(ln))) =>
                 /\ CategoryCalls(ln) = {}
                 /\ ~(result.kind = "InvalidJSON" /\ result.lineno = ln)
                 /\ Passed(ln)

\* a visitor that did not opt in read a value that does not decode and one
\* that does, and came to the end of the stream without a call
C18_Witness ==
    /\ ~visit_td
    /\ Len(stream) = 2
    /\ line_at(0) = LineTreeDecompBad
    /\ line_at(1) = LineTreeDecomp
    /\ result = Res("Ok")
    /\ calls = <<>>

\* C19 (as claimed): a `#x` line whose category test is reached and that has
\* no key and value (`#x` alone included) makes read return
\* InvalidParameterLine; one with a key other than `treedecomp` makes it
\* return UnknownParameter with that key, whatever the visitor's flag; one
\* with the key `treedecomp`, a visitor that opted in and a value that does not
\* decode makes it return InvalidJSON; each with the 0-based number of the
\* line.  Nothing else, a panic included, comes of a `#x` line.
C19_ParamLineOutcomes ==
    \A ln \in LineNumbers :
        (Classified(ln) /\ Category(ContentAt(ln)) = "param") =>
            /\ ln = lineno => result.kind # "Panic"
            /\ ~HasKeyValue(ContentAt(ln)) =>
                  result = [Res("InvalidParameterLine") EXCEPT !.lineno = ln]
            /\ (HasKeyValue(ContentAt(ln)) /\ KeyOf(ContentAt(ln)) # TreeDecompKey) =>
                  result = [Res("UnknownParameter") EXCEPT !.lineno = ln, !.key = KeyOf(ContentAt(ln))]
            /\ (/\ HasKeyValue(ContentAt(ln))
                /\ KeyOf(ContentAt(ln)) = TreeDecompKey
                /\ visit_td
                /\ ~decode_tree_decomposition(ValueOf(ContentAt(ln))).ok) =>
                  result = [Res("InvalidJSON") EXCEPT !.lineno = ln]

\* C20 (as claimed): a `#s` line whose category test is reached and that has
\* a key and a value brings one call of visit_stride_line with the trimmed
\* line, the key and the value, both trimmed; every other `#s` line (`#s`
\* alone, a key without a value) makes read return InvalidStrideLine with the
\* number of the line.  Nothing else, a panic included, comes of a `#s` line.
C20_StrideLineOutcomes ==
    \A ln \in LineNumbers :
        (Classified(ln) /\ Category(ContentAt(ln)) = "stride") =>
            /\ ln = lineno => result.kind # "Panic"
            /\ HasKeyValue(ContentAt(ln)) =>
                  /\ Cardinality(CategoryCalls(ln)) = 1
                  /\ \A i \in CategoryCalls(ln) :
                        /\ calls[i].h = "visit_stride_line"
                        /\ calls[i].line = ContentAt(ln)
                        /\ calls[i].key = KeyOf(ContentAt(ln))
                        /\ calls[i].value = ValueOf(ContentAt(ln))
            /\ ~HasKeyValue(ContentAt(ln)) =>
                  /\ CategoryCalls(ln) = {}
                  /\ result = [Res("InvalidStrideLine") EXCEPT !.lineno = ln]

----------------------------------------------------------------------------
\* InstanceReader::read on streams of `#a` and `#p` lines

MaxFieldLines == 2

FieldStreams ==
    UNION {[1..n -> (Len(AllLines) - Len(FieldPool) + 1)..Len(AllLines)] : n \in 0..MaxFieldLines}

InitFields ==
    /\ stream \in FieldStreams
    /\ visit_td = FALSE
    /\ lineno = 0
    /\ header_line = NoneVal
    /\ calls = <<>>
    /\ result = Running
    /\ NewickIdle
    /\ InstanceIdle
    /\ LexerIdle
    /\ DfsIdle

SpecFields == InitFields /\ [][Next]_vars

\* Reference notions the properties of `#a` and `#p` lines are stated with

\* the fields of a line: its parts between single spaces
Fields(c) == split(c, " ")

\* s is written as a number: a decimal numeral or an infinity, not a NaN
IsNumber(s) == parse_f64(s).ok /\ parse_f64(s).class # "nan"

\* s is written as an unsigned integer that a usize holds
IsUnsigned(s) == parse_usize(s).ok

\* the line is `#a <floatA> <uintB>`, floatA a number that is not below zero
\* and uintB an unsigned integer
IsApproxLine(c) ==
    /\ Len(Fields(c)) = 3
    /\ Fields(c)[1] = <<"#", "a">>
    /\ IsNumber(Fields(c)[2])
    /\ ~f64_is_negative(parse_f64(Fields(c)[2]))
    /\ IsUnsigned(Fields(c)[3])

\* C21 (as claimed): for a `#a` line whose category test is reached,
\* visit_approx_line is called, once and with the line's number and values, if
\* and only if the line is `#a <floatA> <uintB>` with floatA a non-negative
\* number and uintB an unsigned integer; every other `#a` line makes read
\* return InvalidApproxLine with the line's number, without a handler call.
C21_ApproxLineOutcomes ==
    \A ln \in LineNumbers :
        (Classified(ln) /\ Category(ContentAt(ln)) = "approx") =>
            IF IsApproxLine(ContentAt(ln))
            THEN /\ Cardinality(CategoryCalls(ln)) = 1
                 /\ \A i \in CategoryCalls(ln) :
                       /\ calls[i].h = "visit_approx_line"
                       /\ calls[i].param_a = parse_f64(Fields(ContentAt(ln))[2])
                       /\ calls[i].param_b = parse_usize(Fields(ContentAt(ln))[3]).v
            ELSE /\ CategoryCalls(ln) = {}
                 /\ result = [Res("InvalidApproxLine") EXCEPT !.lineno = ln]

\* the line is exactly `#p <numTrees> <numLeaves>`: three fields between
\* single spaces, the last two unsigned integers
IsHeaderLine(c) ==
    /\ Len(Fields(c)) = 3
    /\ Fields(c)[1] = <<"#", "p">>
    /\ IsUnsigned(Fields(c)[2])
    /\ IsUnsigned(Fields(c)[3])

\* C22 (as claimed): when the category test of the first `#p` line is
\* reached, visit_header is called, once and with the line's number and the
\* two values, if and only if the content is exactly
\* `#p <numTrees> <numLeaves>`; every other `#p` line (a missing, non-numeric
\* or extra field, text glued to the prefix) makes read return
\* InvalidHeaderLine with the line's number.
C22_HeaderLineOutcomes ==
    (HeaderLines # {} /\ Classified(FirstHeader)) =>
        IF IsHeaderLine(ContentAt(FirstHeader))
        THEN /\ Cardinality(CategoryCalls(FirstHeader)) = 1
             /\ \A i \in CategoryCalls(FirstHeader) :
                   /\ calls[i].h = "visit_header"
                   /\ calls[i].num_trees = parse_usize(Fields(ContentAt(FirstHeader))[2]).v
                   /\ calls[i].num_leaves = parse_usize(Fields(ContentAt(FirstHeader))[3]).v
        ELSE /\ CategoryCalls(FirstHeader) = {}
             /\ result = [Res("InvalidHeaderLine") EXCEPT !.lineno = FirstHeader]

----------------------------------------------------------------------------
\* the lines `#x treedecomp <value>` of the stream
TreeDecompLines == {ln \in LineNumbers : IsTreeDecompLine(ContentAt(ln))}

LastTreeDecompLine == CHOOSE ln \in TreeDecompLines : \A m \in TreeDecompLines : m <= ln

\* C23: in the Instance a successful try_read returns, tree_decomposition is
\* None exactly when the stream has no `#x treedecomp` line; otherwise it is
\* the payload of the last such line, wherever those lines stand relative to
\* the header and the tree lines.
C23_LastTreeDecompositionKept ==
    outcome.kind = "Ok" =>
        /\ outcome.instance.tree_decomposition.present <=> TreeDecompLines # {}
        /\ TreeDecompLines # {} =>
              outcome.instance.tree_decomposition
                  = decode_tree_decomposition(ValueOf(ContentAt(LastTreeDecompLine))).td

\* a payload before the header and a different one after it: the second is kept
C23_Witness ==
    /\ Len(stream) = 3
    /\ line_at(0) = LineTreeDecomp
    /\ line_at(1) = LineHeader
    /\ line_at(2) = LineTreeDecompTwo
    /\ outcome.kind = "Ok"
    /\ outcome.instance.tree_decomposition.treewidth = 2

----------------------------------------------------------------------------
\* The Lexer used as an iterator: Lexer::new, allow_whitespaces, next

MaxLexLen == 3

\* the characters of the lexer's inputs: symbols, digits, an ASCII and a
\* two-byte whitespace character, and a character that is never expected
LexAlphabet == {"(", ")", ",", ";", "0", "1", " ", Nbsp, "x"}

LexTexts == UNION {[1..n -> LexAlphabet] : n \in 0..MaxLexLen}

\* what a call of next returned, without the lexer
returned_item(it) == [kind |-> it.kind, token |-> it.token, character |-> it.character, offset |-> it.offset]

\* Lexer::new(text)
InitLexer ==
    /\ text \in LexTexts
    /\ lexer = lexer_new(text)
    /\ items = <<>>
    /\ root_id = Small(0, U32Limbs)
    /\ builder = "plain"
    /\ overflow_checks = FALSE
    /\ phase = "idle"
    /\ parsed = NoParse
    /\ written = <<>>
    /\ reparsed = NoParse
    /\ rewritten = <<>>
    /\ ReaderIdle
    /\ InstanceIdle
    /\ DfsIdle

\* lexer.allow_whitespaces(), before the first call of next
lexer_allow_whitespaces ==
    /\ items = <<>>
    /\ ~lexer.allow_whitespace
    /\ lexer' = allow_whitespaces(lexer)
    /\ UNCHANGED items
    /\ UNCHANGED readerVars
    /\ UNCHANGED newickVars
    /\ UNCHANGED instanceVars
    /\ UNCHANGED dfsVars

\* one call of lexer.next(); the caller may go on calling after an error and
\* after None
lexer_call_next ==
    /\ Len(items) < Len(text) + 2
    /\ \E it \in {lexer_next(lexer)} :
          /\ items' = Append(items, returned_item(it))
          /\ lexer' = it.lexer
    /\ UNCHANGED readerVars
    /\ UNCHANGED newickVars
    /\ UNCHANGED instanceVars
    /\ UNCHANGED dfsVars

NextLexer == lexer_allow_whitespaces \/ lexer_call_next

SpecLexer == InitLexer /\ [][NextLexer]_vars

\* C24 (as claimed): once next has returned Err(UnexpectedChar), every later
\* call of next returns None: no token and no error follows the first error.
C24_NothingAfterUnexpectedChar ==
    \A i \in 1..Len(items) :
        items[i].kind = "err" => \A j \in (i + 1)..Len(items) : items[j].kind = "none"

\* the number of bytes of a character in UTF-8
Utf8Len(c) == IF c = Nbsp THEN 2 ELSE 1

\* the byte offset of the character at 1-based position i of t
RECURSIVE ByteOffset(_, _)
ByteOffset(t, i) == IF i <= 1 THEN 0 ELSE ByteOffset(t, i - 1) + Utf8Len(t[i - 1])

\* the last position of the maximal run of digits that starts at position i
RunEnd(t, i) ==
    CHOOSE j \in i..Len(t) :
        /\ \A k \in i..j : t[k] \in Digits
        /\ (j = Len(t) \/ t[j + 1] \notin Digits)

RefToken(ty, v, off) ==
    [kind |-> "token", character |-> "", offset |-> NoneVal,
     token |-> [offset |-> off, token_type |-> ty, number |-> <<v % LimbBase, v \div LimbBase>>]]

\* the reference tokenization of t from position i on, up to and with the
\* first unexpected character: one Number per maximal run of digits, one
\* token per symbol, nothing for whitespace when it is permitted, each with
\* the byte offset of its first character
RECURSIVE RefItems(_, _, _)
RefItems(t, i, permissive) ==
    IF i > Len(t) THEN <<>>
    ELSE IF t[i] \in Digits
    THEN <<RefToken("Number", NumeralInt(SubSeq(t, i, RunEnd(t, i))), ByteOffset(t, i))>>
             \o RefItems(t, RunEnd(t, i) + 1, permissive)
    ELSE IF t[i] \in DOMAIN Symbols
    THEN <<RefToken(Symbols[t[i]], 0, ByteOffset(t, i))>> \o RefItems(t, i + 1, permissive)
    ELSE IF permissive /\ t[i] \in Whitespace THEN RefItems(t, i + 1, permissive)
    ELSE <<[kind |-> "err", character |-> t[i], offset |-> ByteOffset(t, i), token |-> NoToken]>>

\* the items next returned up to and with its first error, and before its
\* first None
RECURSIVE ToFirstError(_)
ToFirstError(its) ==
    IF its = <<>> \/ its[1].kind \in {"none", "panic"} THEN <<>>
    ELSE IF its[1].kind = "err" THEN <<its[1]>>
    ELSE <<its[1]>> \o ToFirstError(Tail(its))

\* the iteration has come to its first error or to None
LexedOut == \E i \in 1..Len(items) : items[i].kind \in {"err", "none"}

\* C25 (as claimed): the tokens next returns up to its first error are the
\* reference tokenization of the input: one Number with the decimal value per
\* maximal run of digits, one token per symbol, none for whitespace in
\* permissive mode; every token and the UnexpectedChar carry the byte offset
\* of their first character.
C25_ReferenceTokenization ==
    /\ Len(ToFirstError(items)) <= Len(RefItems(text, 1, lexer.allow_whitespace))
    /\ ToFirstError(items)
         = SubSeq(RefItems(text, 1, lexer.allow_whitespace), 1, Len(ToFirstError(items)))
    /\ LexedOut => ToFirstError(items) = RefItems(text, 1, lexer.allow_whitespace)

----------------------------------------------------------------------------
\* Reference notions for the order of the builder calls of one parse

\* the nodes of a tree in post-order: left subtree, right subtree, the node
RECURSIVE PostOrder(_)
PostOrder(node) ==
    IF node.kind = "Leaf" THEN <<node>>
    ELSE PostOrder(node.left) \o PostOrder(node.right) \o <<node>>

\* the calls of new_leaf and new_inner of a log replayed on a stack of the
\* nodes returned and not yet used: new_leaf pushes its node, new_inner must
\* be given the two nodes on top, left below right, and replaces them by its
\* node.  NoNode on the stack marks a call that broke the rule.
RECURSIVE Replay(_, _)
Replay(log, stk) ==
    IF log = <<>> THEN stk
    ELSE IF log[1].op = "new_leaf" THEN Replay(Tail(log), Append(stk, log[1].ret))
    ELSE IF /\ log[1].op = "new_inner"
            /\ Len(stk) >= 2
            /\ stk[Len(stk) - 1] = log[1].left
            /\ stk[Len(stk)] = log[1].right
    THEN Replay(Tail(log), Append(SubSeq(stk, 1, Len(stk) - 2), log[1].ret))
    ELSE <<NoNode>>

\* the positions of the calls of a method in the log of the parse
CallsOf(op) == {i \in 1..Len(parsed.log) : parsed.log[i].op = op}

\* the part of the text the lexer has consumed
Consumed == SubSeq(text, 1, parsed.lexer.pos)

\* C26: the parser calls the builder in post-order: new_inner is called with
\* the two nodes returned last for its left and right subtree, after all
\* calls for them; there is one new_leaf per leaf and one new_inner per inner
\* node.  On success make_root is called once, as the last call, on the
\* top-level node, after the `;` was read; on a failure it is not called.
C26_BuilderCallsInPostOrder ==
    phase = "parsed" =>
        /\ parsed.status = "ok" =>
              /\ CallsOf("make_root") = {Len(parsed.log)}
              /\ parsed.log[Len(parsed.log)].left = parsed.node
              /\ Replay(SubSeq(parsed.log, 1, Len(parsed.log) - 1), <<>>) = <<parsed.node>>
              /\ [i \in 1..(Len(parsed.log) - 1) |-> parsed.log[i].ret] = PostOrder(parsed.node)
              /\ Cardinality(CallsOf("new_leaf")) = Cardinality(DigitRuns(Consumed))
              /\ Cardinality(CallsOf("new_inner")) = InnerCount(Consumed)
              /\ Consumed[Len(Consumed)] = ";"
        /\ parsed.status # "ok" =>
              /\ CallsOf("make_root") = {}
              /\ NoNode \notin {Replay(parsed.log, <<>>)[i] : i \in 1..Len(Replay(parsed.log, <<>>))}

\* a tree of three leaves parsed with the indexed builder: three calls of
\* new_leaf, two of new_inner, then make_root
C26_Witness ==
    /\ phase = "parsed"
    /\ parsed.status = "ok"
    /\ builder = "indexed"
    /\ Len(parsed.log) = 6
    /\ parsed.log[3].op = "new_inner"
    /\ parsed.log[5].op = "new_inner"
    /\ parsed.log[6].op = "make_root"

----------------------------------------------------------------------------
\* Depth-first traversal (src/binary_tree/depth_first_search.rs)

\* a TopDownCursor: the node it points at, and the way from the root to it,
\* which is what tells two cursors on equal subtrees apart
Cursor(node, path) == [node |-> node, path |-> path]

\* TopDownCursor::children of a cursor
cursor_children(c) ==
    [some  |-> children(c.node).some,
     left  |-> Cursor(children(c.node).left, Append(c.path, "left")),
     right |-> Cursor(children(c.node).right, Append(c.path, "right"))]

\* Option<C>::None of DFSImpl::next
NoCursor == Cursor(NoNode, <<>>)

\* DFSImpl::next that pushes the left child first, so visits the right one first
dfs_next_right_first(st) ==
    IF st = <<>> THEN [item |-> NoCursor, stack |-> st]
    ELSE LET item == st[Len(st)]
             rest == SubSeq(st, 1, Len(st) - 1)
         IN IF cursor_children(item).some
            THEN [item |-> item, stack |-> rest \o <<cursor_children(item).left, cursor_children(item).right>>]
            ELSE [item |-> item, stack |-> rest]

\* DFSImpl::next: pop, push the right child, then the left one
dfs_next(st) ==
    IF st = <<>> THEN [item |-> NoCursor, stack |-> st]
    ELSE LET item == st[Len(st)]
             rest == SubSeq(st, 1, Len(st) - 1)
         IN IF cursor_children(item).some
            THEN [item |-> item, stack |-> rest \o <<cursor_children(item).right, cursor_children(item).left>>]
            ELSE [item |-> item, stack |-> rest]

\* the trees that are traversed: the strings of `Tree ';'` with leaves that fit
DfsTexts == {t \o <<";">> : t \in UNION {TreeTexts(k) : k \in 1..MaxLeaves}}

\* the text and the builder of the tree that will be traversed
InitDfs ==
    /\ text \in DfsTexts
    /\ root_id = Small(0, U32Limbs)
    /\ builder \in Builders
    /\ overflow_checks = FALSE
    /\ phase = "start"
    /\ parsed = NoParse
    /\ written = <<>>
    /\ reparsed = NoParse
    /\ rewritten = <<>>
    /\ ReaderIdle
    /\ InstanceIdle
    /\ LexerIdle
    /\ DfsIdle

\* tree.dfs(): DFSImpl { stack: vec![self] }
dfs ==
    /\ phase = "parsed"
    /\ parsed.status = "ok"
    /\ phase' = "dfs"
    /\ stack' = <<Cursor(parsed.node, <<>>)>>
    /\ yielded' = <<>>
    /\ UNCHANGED <<text, root_id, builder, overflow_checks, parsed, written, reparsed, rewritten>>
    /\ UNCHANGED readerVars
    /\ UNCHANGED instanceVars
    /\ UNCHANGED lexerVars

\* one call of next on the iterator; the caller may go on calling after
\* None, here up to two calls after the last node of the largest tree
dfs_call_next ==
    /\ phase = "dfs"
    /\ Len(yielded) < 2 * MaxLeaves + 1
    /\ \E r \in {dfs_next(stack)} :
          /\ yielded' = Append(yielded, r.item)
          /\ stack' = r.stack
    /\ UNCHANGED readerVars
    /\ UNCHANGED newickVars
    /\ UNCHANGED instanceVars
    /\ UNCHANGED lexerVars

NextDfs == Parse \/ dfs \/ dfs_call_next

SpecDfs == InitDfs /\ [][NextDfs]_vars

\* the cursors of all nodes below and with c, in pre-order
RECURSIVE PreOrder(_)
PreOrder(c) ==
    IF c.node.kind = "Leaf" THEN <<c>>
    ELSE <<c>> \o PreOrder(Cursor(c.node.left, Append(c.path, "left")))
             \o PreOrder(Cursor(c.node.right, Append(c.path, "right")))

\* the nodes of the tree that is traversed, in pre-order
TreePreOrder == PreOrder(Cursor(parsed.node, <<>>))

\* C27: the iterator of dfs() yields the nodes of the tree in pre-order, each
\* exactly once: its k-th call returns the k-th node in pre-order, and every
\* call after the last node returns None.
C27_DfsIsPreOrderAndEnds ==
    phase = "dfs" => \A k \in 1..Len(yielded) :
        IF k <= Len(TreePreOrder) THEN yielded[k] = TreePreOrder[k] ELSE yielded[k] = NoCursor

\* a tree of four leaves was traversed and next was called twice more
C27_Witness ==
    /\ phase = "dfs"
    /\ Len(TreePreOrder) = 7
    /\ Len(yielded) = 9
    /\ yielded[7] # NoCursor
    /\ yielded[8] = NoCursor
    /\ yielded[9] = NoCursor

----------------------------------------------------------------------------
\* Reference notions for the ids one parse hands out

\* s + k in 32 bits
IdPlus(s, k) == MulAdd(s, 1, k).v

\* the number of inner nodes of a tree
RECURSIVE InnerNodes(_)
InnerNodes(node) ==
    IF node.kind = "Leaf" THEN 0 ELSE 1 + InnerNodes(node.left) + InnerNodes(node.right)

\* the subtree at node was started at id s: an inner node has the id s, its
\* left subtree is started at s + 1 and its right subtree at the id left free
\* by the left one, s + 1 + (inner nodes of the left subtree); a leaf takes none
RECURSIVE StartedAt(_, _)
StartedAt(node, s) ==
    IF node.kind = "Leaf" THEN TRUE
    ELSE /\ node.idx = s
         /\ StartedAt(node.left, IdPlus(s, 1))
         /\ StartedAt(node.right, IdPlus(s, 1 + InnerNodes(node.left)))

\* C28: a parse from root id R of a tree with k inner nodes, in which no
\* increment overflows, passes to new_inner the ids R, R+1, ..., R+k-1, each
\* once; a subtree started at id s with m inner nodes leaves s + m as the next
\* free id (for the whole tree R + k), and a leaf takes no id.
C28_ConsecutiveInnerIds ==
    (ParsedOk /\ NoIncrementOverflow) =>
        /\ Cardinality(CallsOf("new_inner")) = InnerCount(text)
        /\ {parsed.log[i].id : i \in CallsOf("new_inner")}
              = {IdPlus(root_id, j) : j \in 0..(InnerCount(text) - 1)}
        /\ parsed.next_id = IdPlus(root_id, InnerCount(text))
        /\ builder = "indexed" => StartedAt(parsed.node, root_id)

\* a tree with inner nodes on both sides of the root, parsed from 6 with the
\* builder that drops the ids: new_inner was given 7, 8 and 6
C28_Witness ==
    /\ ParsedOk
    /\ builder = "plain"
    /\ root_id = Small(6, U32Limbs)
    /\ InnerCount(text) = 3
    /\ Len(parsed.log) = 8
    /\ parsed.log[3].id = Small(7, U32Limbs)
    /\ parsed.log[6].id = Small(8, U32Limbs)
    /\ parsed.log[7].id = Small(6, U32Limbs)
    /\ parsed.next_id = Small(9, U32Limbs)

----------------------------------------------------------------------------
\* the tree lines of the stream, and the i-th of them in file order
TreeLines == {ln \in LineNumbers : IsTreeLine(ln)}

NthTreeLine(i) == CHOOSE ln \in TreeLines : Cardinality({m \in TreeLines : m < ln}) = i - 1

\* the text of `Tree` of a tree line: its content without the closing `;`
TreeTextAt(ln) == SubSeq(ContentAt(ln), 1, Len(ContentAt(ln)) - 1)

\* a stream of the header `#p 2 3` followed only by tree lines that parse, of
\* three or four leaves
HeaderThenTrees ==
    /\ stream # <<>>
    /\ line_at(0) = LineHeader
    /\ \A ln \in LineNumbers : ln >= 1 => line_at(ln) \in {LineTree3, LineTree4}

\* C29: the Instance a successful try_read returns holds one tree per tree
\* line of the stream, in file order, and the leaf count of the header.  The
\* number of trees the header declares and the leaf count it declares are
\* compared with nothing: a header followed by any number of tree lines that
\* parse, of any number of leaves, is read with success.
C29_OneTreePerTreeLine ==
    /\ outcome.kind = "Ok" =>
          /\ Len(outcome.instance.trees) = Cardinality(TreeLines)
          /\ \A i \in 1..Len(outcome.instance.trees) :
                Shape(outcome.instance.trees[i]) = Derivation(TreeTextAt(NthTreeLine(i)))
          /\ HeaderLines # {} =>
                outcome.instance.num_leaves = parse_usize(Fields(ContentAt(FirstHeader))[3]).v
    /\ (Returned /\ HeaderThenTrees) => outcome.kind = "Ok"

\* the header declares two trees of three leaves; the stream holds a tree of
\* four leaves and then one of three, and both are returned in that order
C29_Witness ==
    /\ Len(stream) = 3
    /\ line_at(0) = LineHeader
    /\ line_at(1) = LineTree4
    /\ line_at(2) = LineTree3
    /\ outcome.kind = "Ok"
    /\ Len(outcome.instance.trees) = 2
    /\ InnerNodes(outcome.instance.trees[1]) = 3
    /\ InnerNodes(outcome.instance.trees[2]) = 2
    /\ outcome.instance.num_leaves = Small(3, UsizeLimbs)

----------------------------------------------------------------------------
\* the header state of the Visitor changes in this step
HeaderStateChanges == visitor'.num_leaves # visitor.num_leaves

\* the only change of the header state: from None to Some(n) with n >= 1
HeaderStateIsSet ==
    /\ ~visitor.num_leaves.some
    /\ visitor'.num_leaves.some
    /\ ~IsZero(visitor'.num_leaves.v)

\* a tree is appended in this step
TreeIsAppended == instance'.trees # instance.trees

\* what holds of the header state in every state of try_read
HeaderStateInvariant ==
    /\ visitor.num_leaves.some => ~IsZero(visitor.num_leaves.v)
    /\ \A k \in 1..Len(parse_calls) : ~Decrement(parse_calls[k].num_leaves).borrow
    /\ instance.trees # <<>> => visitor.num_leaves.some
    /\ visitor.error.kind # "MultipleHeaders"
    /\ ~ReturnedError("MultipleHeaders")
    /\ Cardinality(HeaderLines) >= 2 /\ Classified(SecondHeader) =>
          /\ result.kind = "MultipleHeaders"
          /\ Returned => (ReturnedError("ReaderError") /\ outcome.error.reader = result)

\* C30: during try_read the header state of the Visitor changes at most once,
\* from None to Some(n) with n >= 1, and not again; `num_leaves - 1` of the
\* root-id computation does not underflow; a tree is appended only while the
\* state is Some(n); the Visitor's own MultipleHeaders is never produced: a
\* second header is reported by the reader as ReaderError::MultipleHeaders.
C30_HeaderStateSetOnce ==
    /\ [][HeaderStateChanges => HeaderStateIsSet]_vars
    /\ [][TreeIsAppended => (visitor.num_leaves.some /\ visitor'.num_leaves = visitor.num_leaves)]_vars
    /\ []HeaderStateInvariant

\* a header, a tree that is stored, and a second header, which the reader reports
C30_Witness ==
    /\ Len(stream) = 3
    /\ line_at(0) = LineHeader
    /\ line_at(1) = LineTree3
    /\ line_at(2) = LineHeader
    /\ visitor.num_leaves = [some |-> TRUE, v |-> Small(3, UsizeLimbs)]
    /\ Len(instance.trees) = 1
    /\ ReturnedError("ReaderError")
    /\ outcome.error.reader.kind = "MultipleHeaders"

====
